---- MODULE Spec2Model ----
(***************************************************************************)
(* A model of the SBI bank statement analyzer's statement parser           *)
(* (src/src/utils/tsvParser.js).  A JavaScript string is modelled as a     *)
(* sequence of one-character strings, so that the tokenizer, the regular   *)
(* expressions and the trimming of the source are computed character by    *)
(* character, as the source computes them.                                 *)
(***************************************************************************)
EXTENDS Integers, Sequences, FiniteSets, TLC

VARIABLES
    content,    \* the text handed to parseTSV (the statement file's content)
    parsed,     \* the outcome of the last parseTSV(content) call, or NotParsed
    original,   \* the outcome of parseTSV on the content before metadata lines were prepended
    prepended,  \* how many metadata lines were prepended to the content
    arg,        \* the argument (a string, or the list of rules) of an operation called on its own
    ret,        \* what that helper returned; empty before it is called
    upload,     \* FileUpload's state: error (no message, or one) and loading
    app,        \* App's state: transactions, notification, its pending timers, activeTab
    stored,     \* the transactions array kept in localStorage
    calls       \* the calls of FileUpload.handleFile: position, file, what was handed on

vars == <<content, parsed, original, prepended, arg, ret, upload, app, stored, calls>>

-----------------------------------------------------------------------------
(* Characters and the String.prototype methods the parser uses.            *)
(*                                                                          *)
(* TLC evaluates an operator's argument, and a name defined by LET, each    *)
(* time it is used.  A value that is computed once by the source and read   *)
(* many times (a parameter holding a string, the state a loop carries) is   *)
(* therefore bound by a quantifier over a one-element set,                  *)
(*      CHOOSE r \in {body : x \in {value}} : TRUE,                         *)
(* which is body with x standing for the value, computed once.              *)

TAB == "\t"
NL == "\n"
CR == "\r"
QUOTE == "\""
APOS == "'"

UpperCase == <<"A", "B", "C", "D", "E", "F", "G", "H", "I", "J", "K", "L", "M", "N", "O", "P", "Q", "R", "S", "T", "U", "V", "W", "X", "Y", "Z">>
LowerCase == <<"a", "b", "c", "d", "e", "f", "g", "h", "i", "j", "k", "l", "m", "n", "o", "p", "q", "r", "s", "t", "u", "v", "w", "x", "y", "z">>
DigitChars == <<"0", "1", "2", "3", "4", "5", "6", "7", "8", "9">>

Range(s) == {s[i] : i \in 1..Len(s)}

Digits == Range(DigitChars)
Uppers == Range(UpperCase)
Lowers == Range(LowerCase)
Spaces == {" ", TAB, NL, CR}

IsDigit(c) == c \in Digits
IsUpper(c) == c \in Uppers
IsLower(c) == c \in Lowers
IsLetter(c) == IsUpper(c) \/ IsLower(c)
\* \w of a JavaScript regular expression
IsWordChar(c) == IsLetter(c) \/ IsDigit(c) \/ c = "_"
\* \s of a JavaScript regular expression, and what trim() strips
IsSpace(c) == c \in Spaces

\* String.prototype.toLowerCase on one character
LowerOf == [c \in Uppers |-> LowerCase[CHOOSE i \in 1..26 : UpperCase[i] = c]]

LowerChar(c) == IF IsUpper(c) THEN LowerOf[c] ELSE c

ToLowerCase(str) ==
    CHOOSE r \in {[i \in 1..Len(s) |-> LowerChar(s[i])] : s \in {str}} : TRUE

\* String.prototype.trim
RECURSIVE SpacesFrom(_, _)
\* the number of whitespace characters s starts with, from position i on
SpacesFrom(s, i) == IF i <= Len(s) /\ IsSpace(s[i]) THEN 1 + SpacesFrom(s, i + 1) ELSE 0

RECURSIVE SpacesBefore(_, _)
\* the number of whitespace characters that end at position i of s
SpacesBefore(s, i) == IF i >= 1 /\ IsSpace(s[i]) THEN 1 + SpacesBefore(s, i - 1) ELSE 0

Trim(str) ==
    CHOOSE r \in {
        IF s = <<>> \/ (~IsSpace(s[1]) /\ ~IsSpace(s[Len(s)])) THEN s
        ELSE IF SpacesFrom(s, 1) = Len(s) THEN <<>>
        ELSE SubSeq(s, SpacesFrom(s, 1) + 1, Len(s) - SpacesBefore(s, Len(s)))
      : s \in {str}} : TRUE

\* String.prototype.includes
Includes(str, sub) ==
    \E s \in {str} :
        \E i \in 0..(Len(s) - Len(sub)) : SubSeq(s, i + 1, i + Len(sub)) = sub

\* A loop over the characters lo..hi of a string is evaluated as its first half
\* followed by its second half: the iterations run in order, each on the state
\* the one before left, and the evaluation nests only logarithmically deep.

SplitStep(st, char, sep) ==
    IF char = sep THEN [parts |-> Append(st.parts, st.cur), cur |-> <<>>]
    ELSE [st EXCEPT !.cur = Append(@, char)]

RECURSIVE SplitLoop(_, _, _, _, _)
SplitLoop(s, sep, lo, hi, st) ==
    IF lo > hi THEN st
    ELSE IF lo = hi THEN SplitStep(st, s[lo], sep)
    ELSE CHOOSE r \in {SplitLoop(s, sep, (lo + hi) \div 2 + 1, hi, left) :
                        left \in {SplitLoop(s, sep, lo, (lo + hi) \div 2, st)}} : TRUE

\* String.prototype.split(sep) for a one-character separator
Split(str, sep) ==
    CHOOSE r \in {Append(st.parts, st.cur) :
        st \in {SplitLoop(s, sep, 1, Len(s), [parts |-> <<>>, cur |-> <<>>]) :
                  s \in {str}}} : TRUE

\* Array.prototype.join
RECURSIVE Join(_, _)
Join(ls, sep) ==
    IF ls = <<>> THEN <<>>
    ELSE IF Len(ls) = 1 THEN ls[1]
    ELSE ls[1] \o <<sep>> \o Join(Tail(ls), sep)

-----------------------------------------------------------------------------
(* normalizeMultiLineFields: newlines inside a quoted region become spaces. *)

\* lines 108-118, the body of the loop
\* NormalizeStep replacing a newline whether or not it is inside quotes
NormalizeStep_EveryNewline(st, char) ==
    IF char = QUOTE
    THEN [result |-> Append(st.result, char), inQuote |-> ~st.inQuote]
    ELSE IF char = NL
    THEN [st EXCEPT !.result = Append(@, " ")]
    ELSE [st EXCEPT !.result = Append(@, char)]

NormalizeStep(st, char) ==
    IF char = QUOTE
    THEN [result |-> Append(st.result, char), inQuote |-> ~st.inQuote]
    ELSE IF char = NL /\ st.inQuote
    THEN [st EXCEPT !.result = Append(@, " ")]
    ELSE [st EXCEPT !.result = Append(@, char)]

RECURSIVE NormalizeLoop(_, _, _, _)
NormalizeLoop(s, lo, hi, st) ==
    IF lo > hi THEN st
    ELSE IF lo = hi THEN NormalizeStep(st, s[lo])
    ELSE CHOOSE r \in {NormalizeLoop(s, (lo + hi) \div 2 + 1, hi, left) :
                        left \in {NormalizeLoop(s, lo, (lo + hi) \div 2, st)}} : TRUE

normalizeMultiLineFields(text) ==
    CHOOSE r \in {NormalizeLoop(c, 1, Len(c),
                                [result |-> <<>>, inQuote |-> FALSE]).result :
                    c \in {text}} : TRUE

-----------------------------------------------------------------------------
(* parseTabSeparatedLine: quote-aware split on tabs, every field trimmed.  *)

\* TabSplitStep with the quote flag ignored at a tab: a tab always ends the field
TabSplitStep_QuoteBlind(st, char) ==
    IF char = QUOTE THEN [st EXCEPT !.inQuote = ~@]
    ELSE IF char = TAB
    THEN [st EXCEPT !.result = Append(@, Trim(st.current)), !.current = <<>>]
    ELSE [st EXCEPT !.current = Append(@, char)]

\* lines 133-143, the body of the loop
TabSplitStep(st, char) ==
    IF char = QUOTE THEN [st EXCEPT !.inQuote = ~@]
    ELSE IF char = TAB /\ ~st.inQuote
    THEN [st EXCEPT !.result = Append(@, Trim(st.current)), !.current = <<>>]
    ELSE [st EXCEPT !.current = Append(@, char)]

RECURSIVE TabSplitLoop(_, _, _, _)
TabSplitLoop(line, lo, hi, st) ==
    IF lo > hi THEN st
    ELSE IF lo = hi THEN TabSplitStep(st, line[lo])
    ELSE CHOOSE r \in {TabSplitLoop(line, (lo + hi) \div 2 + 1, hi, left) :
                        left \in {TabSplitLoop(line, lo, (lo + hi) \div 2, st)}} : TRUE

parseTabSeparatedLine(line) ==
    CHOOSE r \in {Append(st.result, Trim(st.current)) :
        st \in {TabSplitLoop(l, 1, Len(l),
                             [result |-> <<>>, current |-> <<>>, inQuote |-> FALSE]) :
                  l \in {line}}} : TRUE

-----------------------------------------------------------------------------
(* findHeaderRow: the first of the first 50 lines that names a date, an     *)
(* amount and a description column; line 0 when none does.                  *)

HeaderScanLimit == 50

requiredColumns == <<<<"d", "a", "t", "e">>, <<"d", "e", "b", "i", "t">>, <<"c", "r", "e", "d", "i", "t">>, <<"b", "a", "l", "a", "n", "c", "e">>>>
descriptionColumns == <<<<"d", "e", "s", "c", "r", "i", "p", "t", "i", "o", "n">>, <<"d", "e", "t", "a", "i", "l", "s">>, <<"p", "a", "r", "t", "i", "c", "u", "l", "a", "r", "s">>, <<"n", "a", "r", "r", "a", "t", "i", "o", "n">>>>

Min2(a, b) == IF a < b THEN a ELSE b

\* lines 78-85: does this line qualify as the header row
IsHeaderLine(line) ==
    \E fields \in {parseTabSeparatedLine(line)} :
    LET columns == [i \in 1..Len(fields) |-> ToLowerCase(Trim(fields[i]))]
        hasDate == \E i \in 1..Len(columns) :
                      /\ Includes(columns[i], <<"d", "a", "t", "e">>)
                      /\ ~Includes(columns[i], <<"s", "t", "a", "t", "e", "m", "e", "n", "t">>)
                      /\ ~Includes(columns[i], <<"o", "p", "e", "n">>)
        hasDebit == \E i \in 1..Len(columns) : \E r \in 2..Len(requiredColumns) :
                      Includes(columns[i], requiredColumns[r])
        hasDescription == \E i \in 1..Len(columns) : \E d \in 1..Len(descriptionColumns) :
                      Includes(columns[i], descriptionColumns[d])
    IN  hasDate /\ hasDebit /\ hasDescription

HeadersOf(line) ==
    CHOOSE r \in {[i \in 1..Len(fields) |-> Trim(fields[i])] :
                    fields \in {parseTabSeparatedLine(line)}} : TRUE

RECURSIVE FirstHeaderFrom_Unbounded(_, _)
\* FirstHeaderFrom scanning every line
FirstHeaderFrom_Unbounded(lines, i) ==
    IF i > Len(lines) THEN 0
    ELSE IF IsHeaderLine(lines[i]) THEN i
    ELSE FirstHeaderFrom_Unbounded(lines, i + 1)

RECURSIVE FirstHeaderFrom(_, _)
\* the loop of lines 76-90 from line i on (lines are 1-indexed here, and
\* headerIndex is 0-indexed as in the source): 0 when the loop ends without a hit
FirstHeaderFrom(lines, i) ==
    IF i > Min2(Len(lines), HeaderScanLimit) THEN 0
    ELSE IF IsHeaderLine(lines[i]) THEN i
    ELSE FirstHeaderFrom(lines, i + 1)

\* FallbackHeader reporting that no header was found
FallbackHeader_NotFound(lines) == [headerIndex |-> 0 - 1, headers |-> <<>>]

\* lines 92-96: no line qualified, the first line is taken as the header
FallbackHeader(lines) == [headerIndex |-> 0, headers |-> HeadersOf(lines[1])]

findHeaderRow(lines) ==
    CHOOSE r \in {IF i # 0
                  THEN [headerIndex |-> i - 1, headers |-> HeadersOf(lines[i])]
                  ELSE FallbackHeader(lines) :
                    i \in {FirstHeaderFrom(lines, 1)}} : TRUE

-----------------------------------------------------------------------------
(* Values the source writes as null, and the strings it produces.          *)

\* JavaScript's null where the source holds "a string or null": a sequence
\* that is no string of characters, so it differs from every string.
Null == <<"null">>

\* an object or null ("a Transaction or null") is a sequence of at most one record
NoTransaction == <<>>

-----------------------------------------------------------------------------
(* findKey: the header that fills a role, by exact match first and by a     *)
(* whole-word match second.                                                 *)

\* WordMatch without the word boundaries: lowerName anywhere in the header
WordMatch_Substring(header, lowerName) ==
    \E lowerHeader \in {header} :
    \E i \in 1..(Len(lowerHeader) - Len(lowerName) + 1) :
        SubSeq(lowerHeader, i, i + Len(lowerName) - 1) = lowerName

\* the RegExp of line 266, `(^|[^a-z])${escapeRegex(lowerName)}([^a-z]|$)`, tested on
\* lowerHeader: escapeRegex makes lowerName match literally
WordMatch(header, lowerName) ==
    \E lowerHeader \in {header} :
    \E i \in 1..(Len(lowerHeader) - Len(lowerName) + 1) :
        /\ SubSeq(lowerHeader, i, i + Len(lowerName) - 1) = lowerName
        /\ (i = 1 \/ ~IsLower(lowerHeader[i - 1]))
        /\ (i + Len(lowerName) - 1 = Len(lowerHeader)
              \/ ~IsLower(lowerHeader[i + Len(lowerName)]))

findKey(headers, possibleNames) ==
    LET lowerHeaders == [i \in 1..Len(headers) |-> ToLowerCase(Trim(headers[i]))]
        lowerNames == [n \in 1..Len(possibleNames) |-> ToLowerCase(possibleNames[n])]
    IN  CHOOSE r \in {
            IF exact # {} THEN headers[CHOOSE i \in exact : \A j \in exact : i <= j]
            ELSE IF word # {} THEN headers[CHOOSE i \in word : \A j \in word : i <= j]
            ELSE Null
          : exact \in {{i \in 1..Len(headers) :
                          \E n \in 1..Len(lowerNames) : lowerHeaders[i] = lowerNames[n]}},
            word \in {{i \in 1..Len(headers) :
                          \E n \in 1..Len(lowerNames) :
                              WordMatch(lowerHeaders[i], lowerNames[n])}}} : TRUE

dateNames == <<<<"t", "x", "n", " ", "d", "a", "t", "e">>, <<"t", "r", "a", "n", "s", "a", "c", "t", "i", "o", "n", " ", "d", "a", "t", "e">>, <<"d", "a", "t", "e">>, <<"t", "x", "n", "_", "d", "a", "t", "e">>>>
valueDateNames == <<<<"v", "a", "l", "u", "e", " ", "d", "a", "t", "e">>, <<"v", "a", "l", "u", "e", "_", "d", "a", "t", "e">>, <<"v", "a", "l", "d", "a", "t", "e">>>>
descNames == <<<<"d", "e", "s", "c", "r", "i", "p", "t", "i", "o", "n">>, <<"p", "a", "r", "t", "i", "c", "u", "l", "a", "r", "s">>, <<"n", "a", "r", "r", "a", "t", "i", "o", "n">>, <<"d", "e", "s", "c">>, <<"d", "e", "t", "a", "i", "l", "s">>>>
refNames == <<<<"r", "e", "f", " ", "n", "o">>, <<"r", "e", "f", " ", "n", "o", ".">>, <<"c", "h", "e", "q", "u", "e", " ", "n", "o">>, <<"c", "h", "e", "q", "u", "e", " ", "n", "o", ".">>,
              <<"r", "e", "f", " ", "n", "o", ".", "/", "c", "h", "e", "q", "u", "e", " ", "n", "o", ".">>, <<"r", "e", "f", " ", "n", "o", "/", "c", "h", "e", "q", "u", "e", " ", "n", "o">>, <<"r", "e", "f", "e", "r", "e", "n", "c", "e">>>>
debitNames == <<<<"d", "e", "b", "i", "t">>, <<"w", "i", "t", "h", "d", "r", "a", "w", "a", "l">>, <<"d", "r">>, <<"d", "e", "b", "i", "t", " ", "a", "m", "o", "u", "n", "t">>>>
creditNames == <<<<"c", "r", "e", "d", "i", "t">>, <<"d", "e", "p", "o", "s", "i", "t">>, <<"c", "r">>, <<"c", "r", "e", "d", "i", "t", " ", "a", "m", "o", "u", "n", "t">>>>
balanceNames == <<<<"b", "a", "l", "a", "n", "c", "e">>, <<"c", "l", "o", "s", "i", "n", "g", " ", "b", "a", "l", "a", "n", "c", "e">>, <<"a", "v", "a", "i", "l", "a", "b", "l", "e", " ", "b", "a", "l", "a", "n", "c", "e">>>>

-----------------------------------------------------------------------------
(* parseAmount.  A number is modelled as an integer count of hundredths:   *)
(* 500.00 is 50000.  Digits after the second decimal place are dropped.    *)

RECURSIVE DigitRun(_, _)
\* the length of the run of digits of s that starts at position i
DigitRun(s, i) == IF i <= Len(s) /\ IsDigit(s[i]) THEN 1 + DigitRun(s, i + 1) ELSE 0

RECURSIVE LetterRun(_, _)
LetterRun(s, i) == IF i <= Len(s) /\ IsLetter(s[i]) THEN 1 + LetterRun(s, i + 1) ELSE 0

SpaceRun(s, i) == SpacesFrom(s, i)

DigitValue(c) == (CHOOSE i \in 1..10 : DigitChars[i] = c) - 1

RECURSIVE DigitsValue(_)
\* Number(digits), parseInt(digits)
DigitsValue(d) ==
    IF d = <<>> THEN 0 ELSE 10 * DigitsValue(SubSeq(d, 1, Len(d) - 1)) + DigitValue(d[Len(d)])

RECURSIVE Pow10(_)
Pow10(n) == IF n <= 0 THEN 1 ELSE 10 * Pow10(n - 1)

\* the global parseFloat: the longest prefix that is a decimal literal
\* (sign, digits, fraction, exponent); NaN when there is none.
\* The literal "Infinity" is not modelled: no input of the model spells it.
parseFloat(str) ==
    CHOOSE r \in {
    LET signLen == IF Len(s) >= 1 /\ s[1] \in {"+", "-"} THEN 1 ELSE 0
        negative == signLen = 1 /\ s[1] = "-"
        intLen == DigitRun(s, signLen + 1)
        dot == signLen + intLen + 1
        hasDot == dot <= Len(s) /\ s[dot] = "."
        fracLen == IF hasDot THEN DigitRun(s, dot + 1) ELSE 0
        mantEnd == IF hasDot /\ intLen + fracLen >= 1 THEN dot + fracLen ELSE signLen + intLen
        frac == SubSeq(s, dot + 1, dot + fracLen) \o <<"0", "0">>
        hundredths == 100 * DigitsValue(SubSeq(s, signLen + 1, signLen + intLen))
                        + DigitsValue(SubSeq(frac, 1, 2))
        hasE == mantEnd + 1 <= Len(s) /\ s[mantEnd + 1] \in {"e", "E"}
        expSign == IF hasE /\ mantEnd + 2 <= Len(s) /\ s[mantEnd + 2] \in {"+", "-"}
                   THEN 1 ELSE 0
        expLen == IF hasE THEN DigitRun(s, mantEnd + 2 + expSign) ELSE 0
        expVal == DigitsValue(SubSeq(s, mantEnd + 2 + expSign, mantEnd + 1 + expSign + expLen))
        expNeg == expSign = 1 /\ s[mantEnd + 2] = "-"
        scaled == IF expLen = 0 THEN hundredths
                  ELSE IF expNeg THEN hundredths \div Pow10(expVal)
                  ELSE hundredths * Pow10(expVal)
    IN  IF intLen + fracLen = 0 THEN [nan |-> TRUE, num |-> 0]
        ELSE [nan |-> FALSE, num |-> IF negative THEN 0 - scaled ELSE scaled]
      : s \in {str}} : TRUE

\* replace(/^["']|["']$/g, ''): one quote character off each end
StripQuotes(str) ==
    CHOOSE r \in {
        SubSeq(rest, 1, IF Len(rest) >= 1 /\ rest[Len(rest)] \in {QUOTE, APOS}
                        THEN Len(rest) - 1 ELSE Len(rest))
      : rest \in {SubSeq(s, IF Len(s) >= 1 /\ s[1] \in {QUOTE, APOS} THEN 2 ELSE 1, Len(s)) :
                    s \in {str}}} : TRUE

\* the rupee sign U+20B9, one character of the text
RUPEE == "Rs"

\* replace(/[...]/g, ''): s without the characters of the set drop
Without(s, drop) == SelectSeq(s, LAMBDA c : c \notin drop)

\* value is a string, or Null for undefined (a role with no column)
parseAmount(value) ==
    CHOOSE r \in {
        IF v = Null \/ v = <<>> THEN 0
        ELSE LET trimmed == Trim(v)
                 unquoted == StripQuotes(trimmed)
                 cleaned == Trim(Without(Without(unquoted, {","}), {RUPEE, "$"}))
                 num == parseFloat(cleaned)
             IN  IF trimmed = <<>> THEN 0
                 ELSE IF unquoted = <<>> THEN 0
                 ELSE IF num.nan THEN 0 ELSE num.num
      : v \in {value}} : TRUE

-----------------------------------------------------------------------------
(* parseDate: six formats tried in order; Null when none matches.          *)

AllDigits(s) == \A i \in 1..Len(s) : IsDigit(s[i])
AllWordChars(s) == \A i \in 1..Len(s) : IsWordChar(s[i])

monthAbbr == <<<<"j", "a", "n">>, <<"f", "e", "b">>, <<"m", "a", "r">>, <<"a", "p", "r">>, <<"m", "a", "y">>, <<"j", "u", "n">>,
               <<"j", "u", "l">>, <<"a", "u", "g">>, <<"s", "e", "p">>, <<"o", "c", "t">>, <<"n", "o", "v">>, <<"d", "e", "c">>>>
monthNum == <<<<"0", "1">>, <<"0", "2">>, <<"0", "3">>, <<"0", "4">>, <<"0", "5">>, <<"0", "6">>,
              <<"0", "7">>, <<"0", "8">>, <<"0", "9">>, <<"1", "0">>, <<"1", "1">>, <<"1", "2">>>>

\* months[monthStr.toLowerCase()]: Null for undefined
MonthOf(monthStr) ==
    CHOOSE r \in {IF hit = {} THEN Null ELSE monthNum[CHOOSE m \in hit : TRUE] :
                    hit \in {{m \in 1..12 : monthAbbr[m] = ToLowerCase(monthStr)}}} : TRUE

\* padStart(2, '0')
PadStart2(s) == IF Len(s) < 2 THEN <<"0">> \o s ELSE s

\* /^(\d{1,2})[\/\-\.](\d{1,2})[\/\-\.](\d{N})$/ : <<day, month, year>>, or <<>>
NumericDate(str, yearLen) ==
    CHOOSE r \in {
    LET hits == {ab \in (1..2) \X (1..2) :
                    /\ Len(s) = ab[1] + ab[2] + 2 + yearLen
                    /\ AllDigits(SubSeq(s, 1, ab[1]))
                    /\ s[ab[1] + 1] \in {"/", "-", "."}
                    /\ AllDigits(SubSeq(s, ab[1] + 2, ab[1] + 1 + ab[2]))
                    /\ s[ab[1] + ab[2] + 2] \in {"/", "-", "."}
                    /\ AllDigits(SubSeq(s, ab[1] + ab[2] + 3, Len(s)))}
    IN  IF hits = {} THEN <<>>
        ELSE LET ab == CHOOSE h \in hits : TRUE
             IN  <<SubSeq(s, 1, ab[1]), SubSeq(s, ab[1] + 2, ab[1] + 1 + ab[2]),
                   SubSeq(s, ab[1] + ab[2] + 3, Len(s))>>
      : s \in {str}} : TRUE

\* /^(\d{1,2})\s+(\w{3})\s+(\d{4})$/ : <<day, monthStr, year>>, or <<>>
SpacedDate(str) ==
    CHOOSE r \in {
    LET dayLen == Min2(DigitRun(s, 1), 2)
        hits == {a \in 1..dayLen :
                    LET w1 == SpaceRun(s, a + 1)
                        w2 == SpaceRun(s, a + w1 + 4)
                    IN  /\ w1 >= 1
                        /\ a + w1 + 3 <= Len(s)
                        /\ AllWordChars(SubSeq(s, a + w1 + 1, a + w1 + 3))
                        /\ w2 >= 1
                        /\ Len(s) = a + w1 + 3 + w2 + 4
                        /\ AllDigits(SubSeq(s, a + w1 + w2 + 4, Len(s)))}
    IN  IF hits = {} THEN <<>>
        ELSE LET a == CHOOSE h \in hits : TRUE
                 w1 == SpaceRun(s, a + 1)
             IN  <<SubSeq(s, 1, a), SubSeq(s, a + w1 + 1, a + w1 + 3),
                   SubSeq(s, Len(s) - 3, Len(s))>>
      : s \in {str}} : TRUE

\* /^(\d{1,2})[\/\-](\w{3})[\/\-](\d{N})$/ : <<day, monthStr, year>>, or <<>>
MonthNameDate(str, yearLen) ==
    CHOOSE r \in {
    LET hits == {a \in 1..2 :
                    /\ Len(s) = a + 5 + yearLen
                    /\ AllDigits(SubSeq(s, 1, a))
                    /\ s[a + 1] \in {"/", "-"}
                    /\ AllWordChars(SubSeq(s, a + 2, a + 4))
                    /\ s[a + 5] \in {"/", "-"}
                    /\ AllDigits(SubSeq(s, a + 6, Len(s)))}
    IN  IF hits = {} THEN <<>>
        ELSE LET a == CHOOSE h \in hits : TRUE
             IN  <<SubSeq(s, 1, a), SubSeq(s, a + 2, a + 4), SubSeq(s, a + 6, Len(s))>>
      : s \in {str}} : TRUE

\* /^(\d{4})-(\d{2})-(\d{2})$/
IsIsoDate(s) ==
    /\ Len(s) = 10
    /\ AllDigits(SubSeq(s, 1, 4)) /\ s[5] = "-"
    /\ AllDigits(SubSeq(s, 6, 7)) /\ s[8] = "-"
    /\ AllDigits(SubSeq(s, 9, 10))

\* FullYear with the year 50 taken as 1950
FullYear_From50(year) == IF DigitsValue(year) >= 50 THEN <<"1", "9">> \o year ELSE <<"2", "0">> \o year

\* parseInt(year) > 50 ? `19${year}` : `20${year}`
FullYear(year) == IF DigitsValue(year) > 50 THEN <<"1", "9">> \o year ELSE <<"2", "0">> \o year

parseDate(dateStr) ==
    IF dateStr = Null \/ dateStr = <<>> THEN Null
    ELSE CHOOSE r \in {
         LET m1 == NumericDate(cleaned, 4)
             m2 == NumericDate(cleaned, 2)
             m3 == SpacedDate(cleaned)
             m4 == MonthNameDate(cleaned, 4)
             m5 == MonthNameDate(cleaned, 2)
         IN  IF cleaned = <<>> THEN Null
             ELSE IF m1 # <<>>
                  THEN m1[3] \o <<"-">> \o PadStart2(m1[2]) \o <<"-">> \o PadStart2(m1[1])
             ELSE IF m2 # <<>>
                  THEN FullYear(m2[3]) \o <<"-">> \o PadStart2(m2[2]) \o <<"-">> \o PadStart2(m2[1])
             ELSE IF m3 # <<>> /\ MonthOf(m3[2]) # Null
                  THEN m3[3] \o <<"-">> \o MonthOf(m3[2]) \o <<"-">> \o PadStart2(m3[1])
             ELSE IF m4 # <<>> /\ MonthOf(m4[2]) # Null
                  THEN m4[3] \o <<"-">> \o MonthOf(m4[2]) \o <<"-">> \o PadStart2(m4[1])
             ELSE IF m5 # <<>> /\ MonthOf(m5[2]) # Null
                  THEN FullYear(m5[3]) \o <<"-">> \o MonthOf(m5[2]) \o <<"-">> \o PadStart2(m5[1])
             ELSE IF IsIsoDate(cleaned) THEN cleaned
             ELSE Null
           : cleaned \in {Trim(StripQuotes(Trim(dateStr)))}} : TRUE

-----------------------------------------------------------------------------
(* cleanDescription: six noise patterns removed once each, in order, then  *)
(* whitespace collapsed and the ends trimmed.                               *)

\* The length of the match, at position i of s, of the pattern
\*    literal ([A-Z]+ \/)? \d+ \/      under the flag i (case-insensitive),
\* the bracketed part present when letters is TRUE; 0 when it does not match.
\* No class of the pattern contains "/", so a greedy match is the only match.
NoiseMatchLen(s, i, literal, letters) ==
    LET j == i + Len(literal)
        l == IF letters THEN LetterRun(s, j) ELSE 0
        k == IF letters THEN j + l + 1 ELSE j
        d == DigitRun(s, k)
    IN  IF /\ j - 1 <= Len(s)
           /\ ToLowerCase(SubSeq(s, i, j - 1)) = ToLowerCase(literal)
           /\ (letters => l >= 1 /\ j + l <= Len(s) /\ s[j + l] = "/")
           /\ d >= 1
           /\ k + d <= Len(s) /\ s[k + d] = "/"
        THEN k + d + 1 - i
        ELSE 0

\* String.prototype.replace(pattern, '') with the flag g, at position i: matches
\* are taken left to right and do not overlap (next is where the search goes on),
\* and what a removal leaves is not scanned again
RemoveNoiseStep(st, s, i, literal, letters) ==
    IF i < st.next THEN st
    ELSE LET m == NoiseMatchLen(s, i, literal, letters)
         IN  IF m > 0 THEN [st EXCEPT !.next = i + m]
             ELSE [result |-> Append(st.result, s[i]), next |-> i + 1]

RECURSIVE RemoveNoiseLoop(_, _, _, _, _, _)
RemoveNoiseLoop(s, literal, letters, lo, hi, st) ==
    IF lo > hi THEN st
    ELSE IF lo = hi THEN RemoveNoiseStep(st, s, lo, literal, letters)
    ELSE CHOOSE r \in {RemoveNoiseLoop(s, literal, letters, (lo + hi) \div 2 + 1, hi, left) :
                        left \in {RemoveNoiseLoop(s, literal, letters, lo, (lo + hi) \div 2, st)}} : TRUE

RemoveNoise(str, literal, letters) ==
    CHOOSE r \in {RemoveNoiseLoop(s, literal, letters, 1, Len(s),
                                  [result |-> <<>>, next |-> 1]).result :
                    s \in {str}} : TRUE

\* replace(/\s+/g, ' ') at position i: a run of whitespace leaves one space
CollapseStep(result, s, i) ==
    IF ~IsSpace(s[i]) THEN Append(result, s[i])
    ELSE IF i > 1 /\ IsSpace(s[i - 1]) THEN result
    ELSE Append(result, " ")

RECURSIVE CollapseLoop(_, _, _, _)
CollapseLoop(s, lo, hi, result) ==
    IF lo > hi THEN result
    ELSE IF lo = hi THEN CollapseStep(result, s, lo)
    ELSE CHOOSE r \in {CollapseLoop(s, (lo + hi) \div 2 + 1, hi, left) :
                        left \in {CollapseLoop(s, lo, (lo + hi) \div 2, result)}} : TRUE

CollapseSpaces(str) ==
    CHOOSE r \in {CollapseLoop(s, 1, Len(s), <<>>) : s \in {str}} : TRUE

cleanDescription(description) ==
    IF description = Null \/ description = <<>> THEN <<>>
    ELSE LET c1 == RemoveNoise(description, <<"T", "O", " ", "T", "R", "A", "N", "S", "F", "E", "R", "-", "U", "P", "I", "/">>, TRUE)
             c2 == RemoveNoise(c1, <<"B", "Y", " ", "T", "R", "A", "N", "S", "F", "E", "R", "-", "U", "P", "I", "/">>, TRUE)
             c3 == RemoveNoise(c2, <<"U", "P", "I", "/", "D", "R", "/">>, FALSE)
             c4 == RemoveNoise(c3, <<"U", "P", "I", "/", "C", "R", "/">>, FALSE)
             c5 == RemoveNoise(c4, <<"/", "D", "R", "/">>, FALSE)
             c6 == RemoveNoise(c5, <<"/", "C", "R", "/">>, FALSE)
         IN  Trim(CollapseSpaces(c6))

-----------------------------------------------------------------------------
(* normalizeTransaction: one mapped row to a Transaction, or to nothing.   *)

\* raw[key]: Null for undefined; the key null reads the property "null"
Get(raw, key) ==
    LET name == IF key = Null THEN <<"n", "u", "l", "l">> ELSE key
    IN  IF name \in DOMAIN raw THEN raw[name] ELSE Null

\* value || ''
OrEmpty(value) == IF value = Null THEN <<>> ELSE value

\* SkipRow testing the description after cleaning
SkipRow_AfterCleaning(date, description) ==
    date = <<>> \/ cleanDescription(description) = <<>>

\* SkipRow also skipping a date that parseDate cannot read
SkipRow_UnparsedDate(date, description) ==
    date = <<>> \/ description = <<>> \/ parseDate(date) = Null

\* line 186: a row without a date or without a description is skipped
SkipRow(date, description) == date = <<>> \/ description = <<>>

\* Amount taking the debit first
Amount_DebitFirst(debit, credit) == IF debit > 0 THEN 0 - debit ELSE credit

\* line 210
Amount(debit, credit) == IF credit > 0 THEN credit ELSE 0 - debit

\* line 211
Type(debit, credit) == IF credit > 0 THEN "credit" ELSE "debit"

\* id is what generateId() returns for this row: <<>> (no Transaction) or <<t>>
normalizeTransaction(rawRow, headers, id) ==
    CHOOSE r \in {
    LET date == OrEmpty(Get(raw, dateKey))
        description == OrEmpty(Get(raw, descKey))
    IN  IF SkipRow(date, description) THEN NoTransaction
        ELSE CHOOSE t \in {
             <<[id |-> id,
                date |-> parseDate(date),
                valueDate |-> IF OrEmpty(Get(raw, valueDateKey)) # <<>>
                              THEN parseDate(Get(raw, valueDateKey)) ELSE Null,
                description |-> cleanDescription(description),
                reference |-> OrEmpty(Get(raw, refKey)),
                debit |-> debit,
                credit |-> credit,
                balance |-> balance,
                amount |-> Amount(debit, credit),
                type |-> Type(debit, credit),
                category |-> Null,
                subcategory |-> Null,
                notes |-> <<>>]>>
              : debit \in {parseAmount(Get(raw, debitKey))},
                credit \in {parseAmount(Get(raw, creditKey))},
                balance \in {parseAmount(Get(raw, balanceKey))}} : TRUE
      : raw \in {rawRow},
        dateKey \in {findKey(headers, dateNames)},
        valueDateKey \in {findKey(headers, valueDateNames)},
        descKey \in {findKey(headers, descNames)},
        refKey \in {findKey(headers, refNames)},
        debitKey \in {findKey(headers, debitNames)},
        creditKey \in {findKey(headers, creditNames)},
        balanceKey \in {findKey(headers, balanceNames)}} : TRUE

-----------------------------------------------------------------------------
(* parseTSV.                                                                *)

NoDataRows == "Invalid TSV file: No data rows found"
NoHeaderRow == "Could not find header row with transaction columns (Date, Description/Details, Debit, Credit, Balance)"

\* What a call of parseTSV ends in: a thrown Error, or a returned array
\* (headerIndex and headers are what lines 26-27 log).
Thrown(message) ==
    [status |-> "thrown", transactions |-> <<>>,
     headerIndex |-> 0 - 1, headers |-> <<>>, error |-> message]

\* Returned throwing when no row gave a Transaction
Returned_FailOnEmpty(transactions, found) ==
    IF transactions = <<>> THEN Thrown("No valid transactions found in the file")
    ELSE [status |-> "returned", transactions |-> transactions,
          headerIndex |-> found.headerIndex, headers |-> found.headers, error |-> ""]

\* line 65
Returned(transactions, found) ==
    [status |-> "returned", transactions |-> transactions,
     headerIndex |-> found.headerIndex, headers |-> found.headers, error |-> ""]

\* TooFewLines off by one
TooFewLines_OffByOne(lines) == Len(lines) < 1

\* line 12
TooFewLines(lines) == Len(lines) < 2

\* lines 33-34: the trimmed values of a data line
ValuesOf(line) ==
    CHOOSE r \in {[i \in 1..Len(rawValues) |-> Trim(rawValues[i])] :
                    rawValues \in {parseTabSeparatedLine(line)}} : TRUE

\* lines 48-51: values padded with '' to the header's width
Padded(values, width) ==
    [i \in 1..(IF Len(values) < width THEN width ELSE Len(values)) |->
        IF i <= Len(values) THEN values[i] ELSE <<>>]

\* lines 53-56: the object keyed by header, transaction[header] = values[index] || '';
\* a repeated header keeps its last column
RawRecord(headers, values) ==
    [h \in Range(headers) |->
        LET index == CHOOSE i \in 1..Len(headers) :
                        headers[i] = h /\ \A j \in 1..Len(headers) : headers[j] = h => j <= i
        IN  IF index <= Len(values) THEN values[index] ELSE <<>>]

\* RowTransaction dropping a row that has fewer values than the header has columns
RowTransaction_RejectShort(line, headers, id) ==
    CHOOSE r \in {
        IF \A i \in 1..Len(values) : values[i] = <<>> THEN NoTransaction
        ELSE IF Len(values) < Len(headers) THEN NoTransaction
        ELSE normalizeTransaction(RawRecord(headers, Padded(values, Len(headers))),
                                  headers, id)
      : values \in {ValuesOf(line)}} : TRUE

\* RowTransaction dropping a row whose debit and credit are both 0
RowTransaction_NeedsAmount(line, headers, id) ==
    CHOOSE r \in {
        IF \A i \in 1..Len(values) : values[i] = <<>> THEN NoTransaction
        ELSE IF /\ parseAmount(Get(RawRecord(headers, Padded(values, Len(headers))),
                                   findKey(headers, debitNames))) = 0
                /\ parseAmount(Get(RawRecord(headers, Padded(values, Len(headers))),
                                   findKey(headers, creditNames))) = 0
             THEN NoTransaction
        ELSE normalizeTransaction(RawRecord(headers, Padded(values, Len(headers))),
                                  headers, id)
      : values \in {ValuesOf(line)}} : TRUE

\* lines 33-62, the body of the loop for one data line: <<>> or <<t>>
RowTransaction(line, headers, id) ==
    CHOOSE r \in {
        IF \A i \in 1..Len(values) : values[i] = <<>> THEN NoTransaction
        ELSE normalizeTransaction(RawRecord(headers, Padded(values, Len(headers))),
                                  headers, id)
      : values \in {ValuesOf(line)}} : TRUE

RECURSIVE RowsFrom_Unshift(_, _, _, _, _)
\* RowsFrom putting each Transaction at the front of the array
RowsFrom_Unshift(lines, headers, i, transactions, ids) ==
    IF i > Len(lines) THEN transactions
    ELSE CHOOSE r \in {RowsFrom_Unshift(lines, headers, i + 1, pushed, ids) :
            pushed \in {RowTransaction(lines[i], headers, ids[Len(transactions) + 1])
                          \o transactions}} : TRUE

RECURSIVE RowsFrom(_, _, _, _, _)
\* the loop of lines 31-63 from line i on (1-indexed); ids[k] is the id that
\* generateId() returns while k-1 transactions are in the array
RowsFrom(lines, headers, i, transactions, ids) ==
    IF i > Len(lines) THEN transactions
    ELSE CHOOSE r \in {RowsFrom(lines, headers, i + 1, pushed, ids) :
            pushed \in {transactions \o RowTransaction(lines[i], headers,
                                                       ids[Len(transactions) + 1])}} : TRUE

LinesOf(text) == Split(Trim(normalizeMultiLineFields(text)), NL)

parseTSV(text, ids) ==
    CHOOSE r \in {
        IF TooFewLines(lines) THEN Thrown(NoDataRows)
        ELSE CHOOSE t \in {
                 IF found.headerIndex = 0 - 1 THEN Thrown(NoHeaderRow)
                 ELSE Returned(RowsFrom(lines, found.headers, found.headerIndex + 2,
                                        <<>>, ids), found)
               : found \in {findHeaderRow(lines)}} : TRUE
      : lines \in {LinesOf(text)}} : TRUE

-----------------------------------------------------------------------------
(* The import flow: FileUpload.handleFile, App.handleTransactionsLoaded and *)
(* storageService.addTransactions.                                          *)

WrongFileType == "Please upload a TSV file (.tsv or .txt)"
NoValidTransactions == "No valid transactions found in the file"
FailedToRead == "Failed to read file"
FailedToParse == "Failed to parse the file"

\* String.prototype.endsWith
EndsWith(s, suffix) ==
    /\ Len(s) >= Len(suffix)
    /\ SubSeq(s, Len(s) - Len(suffix) + 1, Len(s)) = suffix

\* FileUpload line 14, negated
AcceptedFileType(name) == EndsWith(name, <<".", "t", "s", "v">>) \/ EndsWith(name, <<".", "t", "x", "t">>)

\* NoTransactions that holds of no result
NoTransactions_Never(transactions) == FALSE

\* FileUpload line 26
NoTransactions(transactions) == Len(transactions) = 0

\* FileUpload line 33: err.message || 'Failed to parse the file'
MessageOf(message) == IF message = "" THEN FailedToParse ELSE message

RECURSIVE NatText(_)
\* the decimal digits of a natural number
NatText(n) ==
    IF n < 10 THEN <<DigitChars[n + 1]>>
    ELSE NatText(n \div 10) \o <<DigitChars[(n % 10) + 1]>>

\* how a template literal prints an amount (a number held in hundredths)
NumberText(a) ==
    CHOOSE r \in {
        (IF a < 0 THEN <<"-">> ELSE <<>>)
            \o NatText(abs \div 100)
            \o (IF abs % 100 = 0 THEN <<>>
                ELSE IF abs % 10 = 0 THEN <<".">> \o NatText((abs % 100) \div 10)
                ELSE <<".">> \o NatText((abs % 100) \div 10) \o NatText(abs % 10))
      : abs \in {IF a < 0 THEN 0 - a ELSE a}} : TRUE

\* storageService lines 131 and 135: `${t.date}_${t.description}_${t.amount}`
Signature(t) ==
    (IF t.date = Null THEN <<"n", "u", "l", "l">> ELSE t.date)
        \o <<"_">> \o t.description \o <<"_">> \o NumberText(t.amount)

\* storageService line 141, new Date(date): 0 for null; for a calendar date
\* YYYY-MM-DD a number that orders as its milliseconds do
TimeOf(date) ==
    IF date = Null THEN 0
    ELSE (DigitsValue(SubSeq(date, 1, 4)) - 1970) * 372
         + (DigitsValue(SubSeq(date, 6, 7)) - 1) * 31
         + (DigitsValue(SubSeq(date, 9, 10)) - 1)

RECURSIVE InsertNewestFirst(_, _)
\* t put behind every element of sorted that is not older than it
InsertNewestFirst(sorted, t) ==
    IF sorted = <<>> THEN <<t>>
    ELSE IF TimeOf(sorted[1].date) >= TimeOf(t.date)
         THEN <<sorted[1]>> \o InsertNewestFirst(Tail(sorted), t)
    ELSE <<t>> \o sorted

RECURSIVE SortNewestFirst(_, _)
\* storageService line 141: Array.prototype.sort is stable
SortNewestFirst(transactions, sorted) ==
    IF transactions = <<>> THEN sorted
    ELSE SortNewestFirst(Tail(transactions), InsertNewestFirst(sorted, transactions[1]))

\* addTransactions telling duplicates by their id alone
addTransactions_ById(existing, newTransactions) ==
    LET existingIds == {existing[k].id : k \in 1..Len(existing)}
        isNew(t) == t.id \notin existingIds
        uniqueNew == SelectSeq(newTransactions, isNew)
        merged == SortNewestFirst(existing \o uniqueNew, <<>>)
    IN  [merged |-> merged, added |-> Len(uniqueNew), total |-> Len(merged)]

\* storageService lines 125-145: what is saved, and what is returned
addTransactions(existing, newTransactions) ==
    LET existingIds == {existing[k].id : k \in 1..Len(existing)}
        existingSignatures == {Signature(existing[k]) : k \in 1..Len(existing)}
        isNew(t) == t.id \notin existingIds /\ Signature(t) \notin existingSignatures
        uniqueNew == SelectSeq(newTransactions, isNew)
        merged == SortNewestFirst(existing \o uniqueNew, <<>>)
    IN  [merged |-> merged, added |-> Len(uniqueNew), total |-> Len(merged)]

MaxCalls == 2
Calls == 1..MaxCalls

\* a call of handleFile that was not made yet
NoCall == [pc |-> "idle", file |-> <<>>, loaded |-> <<>>]

\* FileUpload lines 7-8, App lines 12-17 with nothing in localStorage
NotImporting ==
    /\ upload = [error |-> <<>>, loading |-> FALSE]
    /\ app = [transactions |-> <<>>, notification |-> <<>>, timers |-> 0,
              activeTab |-> "upload"]
    /\ stored = <<>>
    /\ calls = [c \in Calls |-> NoCall]

-----------------------------------------------------------------------------
(* The statement files the model imports: every text of at most MaxLines   *)
(* lines drawn from StatementLines, joined by newlines.                     *)

MaxLines == 3
MaxPrepended == 1

StatementLines ==
    { <<"D", "a", "t", "e", "\t", "D", "e", "t", "a", "i", "l", "s", "\t", "D", "e", "b", "i", "t", "\t", "C", "r", "e", "d", "i", "t", "\t", "B", "a", "l", "a", "n", "c", "e">>,
      <<"\t", "D", "a", "t", "e", "\t", "D", "e", "t", "a", "i", "l", "s", "\t", "D", "e", "b", "i", "t">>,
      <<"1", "/", "4", "/", "2", "0", "2", "4", "\t", "U", "P", "I", "/", "D", "R", "/", "1", "/", "A", "B", "\t", "5", ".", "0", "0", "\t", "\t", "9", "0">>,
      <<"1", "/", "4", "/", "2", "4", "\t", "/", "C", "R", "/", "1", "/", "\t", "\t", "7">>,
      <<"x", "\t", "A", "B", "\t", "5">>,
      <<"\t", "A", "B", "\t", "5", "\t", "\t", "9">>,
      <<"1", "-", "J", "a", "n", "-", "2", "4">>,
      <<>> }

\* lines of statement metadata; none of them qualifies as a header row
MetadataLines ==
    { <<"A", "c", "c", "o", "u", "n", "t", " ", "S", "t", "a", "t", "e", "m", "e", "n", "t">>,
      <<"B", "r", "a", "n", "c", "h", ":", " ", "\"", "A">> }

RECURSIVE TextsOf(_)
\* the sequences of exactly n lines
TextsOf(n) ==
    IF n = 0 THEN {<<>>}
    ELSE {<<l>> \o t : l \in StatementLines, t \in TextsOf(n - 1)}

Contents == {Join(ls, NL) : ls \in UNION {TextsOf(n) : n \in 1..MaxLines}}

\* the values generateId() can return: `txn_${Date.now()}_${random}`
IdSet == {"txn_1", "txn_2"}

NotParsed ==
    [status |-> "none", transactions |-> <<>>,
     headerIndex |-> 0 - 1, headers |-> <<>>, error |-> ""]

NoOriginal == [content |-> <<>>, outcome |-> NotParsed]

Init ==
    /\ content \in Contents
    /\ parsed = NotParsed
    /\ original = NoOriginal
    /\ prepended = 0
    /\ arg = <<>>
    /\ ret = <<>>
    /\ NotImporting

\* how many times parseTSV calls generateId() on this text
IdsGenerated(text) ==
    Len(parseTSV(text, [k \in 1..Len(LinesOf(text)) |-> "txn_1"]).transactions)

\* ParseTSV with the transactions array kept from one call of parseTSV to the next
ParseTSV_SharedArray ==
    /\ parsed.status = "none"
    /\ \E ids \in [1..IdsGenerated(content) -> IdSet] :
          parsed' = [parseTSV(content, ids) EXCEPT
                        !.transactions = original.outcome.transactions \o @]
    /\ UNCHANGED <<content, original, prepended, arg, ret, upload, app, stored, calls>>

\* the import flow calls parseTSV on the file's content
ParseTSV ==
    /\ parsed.status = "none"
    /\ \E ids \in [1..IdsGenerated(content) -> IdSet] :
          parsed' = parseTSV(content, ids)
    /\ UNCHANGED <<content, original, prepended, arg, ret, upload, app, stored, calls>>

\* the bank's export gains a metadata line above what it held, and is imported again
PrependMetadata ==
    /\ parsed.status # "none"
    /\ prepended < MaxPrepended
    /\ \E l \in MetadataLines : content' = l \o <<NL>> \o content
    /\ original' = IF prepended = 0 THEN [content |-> content, outcome |-> parsed]
                   ELSE original
    /\ prepended' = prepended + 1
    /\ parsed' = NotParsed
    /\ UNCHANGED <<arg, ret, upload, app, stored, calls>>

Next == ParseTSV \/ PrependMetadata

Spec == Init /\ [][Next]_vars

-----------------------------------------------------------------------------
(* parseTSV on a statement in the standard format with one data row, whose *)
(* seven values are drawn from the sets below, and parseTSV called a       *)
(* second time on the same text (the same file is imported again).         *)

RowHeader == <<"T", "x", "n", " ", "D", "a", "t", "e", "\t", "V", "a", "l", "u", "e", " ", "D", "a", "t", "e", "\t", "D", "e", "s", "c", "r", "i", "p", "t", "i", "o", "n", "\t", "R", "e", "f", " ", "N", "o", ".", "\t", "D", "e", "b", "i", "t", "\t", "C", "r", "e", "d", "i", "t", "\t", "B", "a", "l", "a", "n", "c", "e">>

DateValues ==
    { <<>>, <<"1", "/", "4", "/", "2", "0", "2", "4">>, <<"3", "2", "/", "1", "3", "/", "2", "4">>, <<"1", " ", "J", "a", "n", " ", "2", "0", "2", "4">>, <<"0", "1", "-", "F", "e", "b", "-", "2", "4">>, <<"x">> }
ValueDateValues == { <<>>, <<"2", "/", "4", "/", "2", "4">>, <<"x">> }
DescriptionValues == { <<>>, <<"A", "B">> }
ReferenceValues == { <<>> }
DebitValues == { <<>>, <<"5", ".", "0", "0">>, <<"-", "5", ".", "0", "0">>, <<"a", "b", "c">> }
CreditValues == { <<>>, <<"7">>, <<"-", "7">> }
BalanceValues == { <<>>, <<"a", "b", "c">> }

\* the data line of a row
RowLine(date, valueDate, description, reference, debit, credit, balance) ==
    Join(<<date, valueDate, description, reference, debit, credit, balance>>, TAB)

RowContents ==
    {RowHeader \o <<NL>> \o RowLine(d, v, desc, ref, dr, cr, bal) :
        d \in DateValues, v \in ValueDateValues, desc \in DescriptionValues,
        ref \in ReferenceValues, dr \in DebitValues, cr \in CreditValues,
        bal \in BalanceValues}

InitRows ==
    /\ content \in RowContents
    /\ parsed = NotParsed
    /\ original = NoOriginal
    /\ prepended = 0
    /\ arg = <<>>
    /\ ret = <<>>
    /\ NotImporting

\* the same file is imported a second time: original keeps what the first call returned
ParseAgain ==
    /\ parsed.status # "none"
    /\ original = NoOriginal
    /\ original' = [content |-> content, outcome |-> parsed]
    /\ parsed' = NotParsed
    /\ UNCHANGED <<content, prepended, arg, ret, upload, app, stored, calls>>

NextRows == ParseTSV \/ ParseAgain

SpecRows == InitRows /\ [][NextRows]_vars

-----------------------------------------------------------------------------
(* findHeaderRow called on its own, on the lines of a text made of         *)
(* metadata lines (FillCounts of them) followed by at most MaxHeaderLines  *)
(* lines drawn from HeaderLines.  ret holds what it returned.              *)

MaxHeaderLines == 2

HeaderLines ==
    { <<"D", "a", "t", "e", "\t", "D", "e", "t", "a", "i", "l", "s", "\t", "D", "e", "b", "i", "t">>,
      <<" ", "t", "x", "n", " ", "d", "a", "t", "e", " ", "\t", "N", "A", "R", "R", "A", "T", "I", "O", "N", "\t", "B", "a", "l", "a", "n", "c", "e">>,
      <<"D", "a", "t", "e", "\t", "D", "e", "t", "a", "i", "l", "s", "\t", "W", "i", "t", "h", "d", "r", "a", "w", "a", "l", "\t", "D", "e", "p", "o", "s", "i", "t">>,
      <<"S", "t", "a", "t", "e", "m", "e", "n", "t", " ", "D", "a", "t", "e", "\t", "D", "e", "t", "a", "i", "l", "s", "\t", "D", "e", "b", "i", "t">>,
      <<"O", "p", "e", "n", "i", "n", "g", " ", "D", "a", "t", "e", "\t", "P", "a", "r", "t", "i", "c", "u", "l", "a", "r", "s", "\t", "C", "r", "e", "d", "i", "t">>,
      <<"D", "a", "t", "e", "\t", "D", "e", "b", "i", "t">>,
      <<"x", "\t", "y">> }

\* how many metadata lines stand before the lines drawn from HeaderLines
FillCounts == {0, 1, HeaderScanLimit - 1, HeaderScanLimit}

RECURSIVE HeaderTextsOf(_)
HeaderTextsOf(n) ==
    IF n = 0 THEN {<<>>}
    ELSE {<<l>> \o t : l \in HeaderLines, t \in HeaderTextsOf(n - 1)}

HeaderContents ==
    {Join([i \in 1..k |-> <<"m">>] \o ls, NL) :
        k \in FillCounts, ls \in UNION {HeaderTextsOf(n) : n \in 1..MaxHeaderLines}}

InitHeader ==
    /\ content \in HeaderContents
    /\ ret = <<>>
    /\ parsed = NotParsed
    /\ original = NoOriginal
    /\ prepended = 0
    /\ arg = <<>>
    /\ NotImporting

FindHeaderRow ==
    /\ ret = <<>>
    /\ ret' = <<findHeaderRow(Split(content, NL))>>
    /\ UNCHANGED <<content, parsed, original, prepended, arg, upload, app, stored, calls>>

NextHeader == FindHeaderRow

SpecHeader == InitHeader /\ [][NextHeader]_vars

-----------------------------------------------------------------------------
(* findKey called on its own, on the headers of a line of at most          *)
(* MaxKeyHeaders columns drawn from KeyHeaders, for one of the roles.      *)
(* ret holds the role's variants and the key it returned.                  *)

MaxKeyHeaders == 3

KeyHeaders ==
    { <<"D", "e", "b", "i", "t">>, <<"D", "r", " ", "N", "o", "t", "e">>, <<"D", "R">>, <<"D", "e", "s", "c", "r", "i", "p", "t", "i", "o", "n">>, <<"C", "r", ".", "/", "D", "r">>, <<"C", "r", "e", "d", "i", "t", " ", "A", "m", "o", "u", "n", "t">>, <<"x", "1">> }

KeyRoles == {debitNames, creditNames}

RECURSIVE KeyHeadersOf(_)
KeyHeadersOf(n) ==
    IF n = 0 THEN {<<>>}
    ELSE {<<h>> \o t : h \in KeyHeaders, t \in KeyHeadersOf(n - 1)}

KeyHeaderLines == {Join(hs, TAB) : hs \in UNION {KeyHeadersOf(n) : n \in 1..MaxKeyHeaders}}

InitKey ==
    /\ arg \in KeyHeaderLines
    /\ ret = <<>>
    /\ NotImporting
    /\ content = <<>>
    /\ parsed = NotParsed
    /\ original = NoOriginal
    /\ prepended = 0

FindKey ==
    /\ ret = <<>>
    /\ \E possibleNames \in KeyRoles :
          ret' = <<[possibleNames |-> possibleNames,
                    key |-> findKey(HeadersOf(arg), possibleNames)]>>
    /\ UNCHANGED <<content, parsed, original, prepended, arg, upload, app, stored, calls>>

NextKey == FindKey

SpecKey == InitKey /\ [][NextKey]_vars

-----------------------------------------------------------------------------
(* cleanDescription called on its own: at import by normalizeTransaction,  *)
(* and again on what it returned by the cleanup of the stored records      *)
(* (StorageService.cleanAllDescriptions, whose cleanDescription is the     *)
(* same code).  ret holds the descriptions the successive calls returned.  *)

MaxBlocks == 4
MaxCleanings == 2

DescriptionBlocks == { <<"/", "D", "R", "/">>, <<"1", "/">>, <<"U", "P", "I">>, <<"A", "B">>, <<" ">> }

RECURSIVE BlockTexts(_)
BlockTexts(n) ==
    IF n = 0 THEN {<<>>}
    ELSE {b \o t : b \in DescriptionBlocks, t \in BlockTexts(n - 1)}

Descriptions == UNION {BlockTexts(n) : n \in 0..MaxBlocks}

InitClean ==
    /\ arg \in Descriptions
    /\ ret = <<>>
    /\ NotImporting
    /\ content = <<>>
    /\ parsed = NotParsed
    /\ original = NoOriginal
    /\ prepended = 0

CleanDescription ==
    /\ Len(ret) < MaxCleanings
    /\ ret' = Append(ret, cleanDescription(IF ret = <<>> THEN arg ELSE ret[Len(ret)]))
    /\ UNCHANGED <<content, parsed, original, prepended, arg, upload, app, stored, calls>>

NextClean == CleanDescription

SpecClean == InitClean /\ [][NextClean]_vars

-----------------------------------------------------------------------------
(* parseTabSeparatedLine called on its own, on every line of at most       *)
(* MaxLineLength characters drawn from LineChars.  ret holds the fields it *)
(* returned, and is empty before the call.                                  *)

MaxLineLength == 6

LineChars == {QUOTE, TAB, "a", " "}

TabLines == UNION {[1..n -> LineChars] : n \in 0..MaxLineLength}

InitLine ==
    /\ arg \in TabLines
    /\ ret = <<>>
    /\ NotImporting
    /\ content = <<>>
    /\ parsed = NotParsed
    /\ original = NoOriginal
    /\ prepended = 0

ParseTabSeparatedLine ==
    /\ ret = <<>>
    /\ ret' = parseTabSeparatedLine(arg)
    /\ UNCHANGED <<content, parsed, original, prepended, arg, upload, app, stored, calls>>

NextLine == ParseTabSeparatedLine

SpecLine == InitLine /\ [][NextLine]_vars

-----------------------------------------------------------------------------
(* parseDate called on its own, on every text made of a day, a separator,  *)
(* a month, a separator and a year.                                        *)

DayTexts == { <<"1">>, <<"3", "1">> }
SeparatorTexts == { <<"/">>, <<"-">>, <<".">>, <<" ">> }
MonthTexts == { <<"4">>, <<"1", "2">>, <<"J", "a", "n">>, <<"D", "E", "C">>, <<"F", "o", "o">> }
YearTexts == { <<"0", "0">>, <<"5", "0">>, <<"5", "1">>, <<"9", "9">>, <<"2", "0", "5", "0">>, <<"1", "9", "5", "1">> }

DateTexts ==
    {d \o s1 \o m \o s2 \o y : d \in DayTexts, s1 \in SeparatorTexts, m \in MonthTexts,
                                 s2 \in SeparatorTexts, y \in YearTexts}

InitDate ==
    /\ arg \in DateTexts
    /\ ret = <<>>
    /\ content = <<>>
    /\ parsed = NotParsed
    /\ original = NoOriginal
    /\ prepended = 0
    /\ NotImporting

ParseDate ==
    /\ ret = <<>>
    /\ ret' = <<parseDate(arg)>>
    /\ UNCHANGED <<content, parsed, original, prepended, arg, upload, app, stored, calls>>

NextDate == ParseDate

SpecDate == InitDate /\ [][NextDate]_vars

-----------------------------------------------------------------------------
(* normalizeMultiLineFields called on its own, on every text of at most    *)
(* MaxTextLength characters drawn from TextChars.                          *)

MaxTextLength == 6

TextChars == {QUOTE, NL, "a", " "}

QuotedTexts == UNION {[1..n -> TextChars] : n \in 0..MaxTextLength}

InitNormalize ==
    /\ arg \in QuotedTexts
    /\ ret = <<>>
    /\ content = <<>>
    /\ parsed = NotParsed
    /\ original = NoOriginal
    /\ prepended = 0
    /\ NotImporting

NormalizeMultiLineFields ==
    /\ ret = <<>>
    /\ ret' = <<normalizeMultiLineFields(arg)>>
    /\ UNCHANGED <<content, parsed, original, prepended, arg, upload, app, stored, calls>>

NextNormalize == NormalizeMultiLineFields

SpecNormalize == InitNormalize /\ [][NextNormalize]_vars

-----------------------------------------------------------------------------
(* storageService.cleanAllDescriptions, run on a store of at most          *)
(* MaxStored transactions.  StorageService.cleanDescription (lines         *)
(* 388-407) is, line for line, the parser's cleanDescription.               *)

MaxStored == 2

StoredDescriptions ==
    { <<>>, <<"A", "B">>, <<" ", "A", " ", " ", "B">>, <<"U", "P", "I", "/", "D", "R", "/", "1", "/", "A", "B">>, <<"/", "D", "R", "/", "/", "D", "R", "/", "1", "/", "1", "/">>, <<"/", "D", "R", "/", "/", "D", "R", "/", "/", "D", "R", "/", "1", "/", "1", "/", "1", "/">> }

\* a stored transaction with the k-th id and the given description
StoredTransaction(k, description) ==
    [id |-> IF k = 1 THEN "txn_1" ELSE "txn_2",
     date |-> <<"2", "0", "2", "4", "-", "0", "4", "-", "0", "1">>, valueDate |-> Null,
     description |-> description, reference |-> <<>>,
     debit |-> 500, credit |-> 0, balance |-> 9000,
     amount |-> 0 - 500, type |-> "debit",
     category |-> Null, subcategory |-> Null, notes |-> <<>>]

Stores ==
    UNION {{[k \in 1..n |-> StoredTransaction(k, ds[k])] : ds \in [1..n -> StoredDescriptions]}
              : n \in 0..MaxStored}

\* storageService lines 364-382: the array handed to saveTransactions and the result
cleanAllDescriptions(transactions) ==
    LET updatedTransactions ==
            [k \in 1..Len(transactions) |->
                IF cleanDescription(transactions[k].description) # transactions[k].description
                THEN [transactions[k] EXCEPT
                         !.description = cleanDescription(transactions[k].description)]
                ELSE transactions[k]]
    IN  [updatedTransactions |-> updatedTransactions,
         cleaned |-> Cardinality({k \in 1..Len(transactions) :
                                    updatedTransactions[k] # transactions[k]}),
         total |-> Len(transactions)]

InitCleanAll ==
    /\ stored \in Stores
    /\ app = [transactions |-> stored, notification |-> <<>>, timers |-> 0,
              activeTab |-> IF stored = <<>> THEN "upload" ELSE "transactions"]
    /\ upload = [error |-> <<>>, loading |-> FALSE]
    /\ calls = [c \in Calls |-> NoCall]
    /\ content = <<>>
    /\ parsed = NotParsed
    /\ original = NoOriginal
    /\ prepended = 0
    /\ arg = <<>>
    /\ ret = <<>>

\* App lines 127-131, handleCleanDescriptions: one run of cleanAllDescriptions;
\* ret keeps what each run returned, the store it ran on, and whether its
\* write failed (saved: localStorage.setItem succeeded)
CleanAllDescriptions ==
    /\ Len(ret) < MaxCleanings
    /\ \E saved \in BOOLEAN :
          \E result \in {cleanAllDescriptions(stored)} :
              \E kept \in {IF result.cleaned > 0 /\ saved THEN result.updatedTransactions
                           ELSE stored} :
                  /\ stored' = kept
                  /\ app' = [app EXCEPT
                                !.transactions = kept,
                                !.notification = <<[cleaned |-> result.cleaned,
                                                    total |-> result.total,
                                                    type |-> "success"]>>,
                                !.timers = @ + 1]
                  /\ ret' = Append(ret, [cleaned |-> result.cleaned, total |-> result.total,
                                         before |-> stored,
                                         failed |-> result.cleaned > 0 /\ ~saved])
    /\ UNCHANGED <<content, parsed, original, prepended, arg, upload, calls>>

NextCleanAll == CleanAllDescriptions

SpecCleanAll == InitCleanAll /\ [][NextCleanAll]_vars

-----------------------------------------------------------------------------
(* The store: batches of at most MaxBatch transactions are handed to       *)
(* handleTransactionsLoaded, MaxAdds times, starting from an empty store;  *)
(* between them the user sets the category and notes of stored             *)
(* transactions while fewer than MaxTimers notification timers are       *)
(* pending.                                                                 *)

MaxBatch == 2
MaxAdds == 3
MaxTimers == 4

\* what the parser returns for a row: the ids and dates vary
BatchTransaction(id, date, description) ==
    [id |-> id, date |-> date, valueDate |-> Null,
     description |-> description, reference |-> <<>>,
     debit |-> 500, credit |-> 0, balance |-> 9000,
     amount |-> 0 - 500, type |-> "debit",
     category |-> Null, subcategory |-> Null, notes |-> <<>>]

BatchTransactions ==
    {BatchTransaction(id, date, description) :
        id \in IdSet, date \in {<<"2", "0", "2", "4", "-", "0", "4", "-", "0", "1">>, <<"2", "0", "2", "4", "-", "0", "4", "-", "0", "2">>},
        description \in {<<"A", "B">>}}

Batches == UNION {[1..n -> BatchTransactions] : n \in 1..MaxBatch}

InitStore ==
    /\ content = <<>>
    /\ parsed = NotParsed
    /\ original = NoOriginal
    /\ prepended = 0
    /\ arg = <<>>
    /\ ret = <<>>
    /\ NotImporting

\* App lines 41-46, handleTransactionsLoaded, on a batch; ret keeps, for each
\* call, the batch, what addTransactions returned and the store before and
\* after it (saved: localStorage.setItem succeeded)
AddTransactions ==
    /\ Len(ret) < MaxAdds
    /\ \E newTransactions \in Batches, saved \in BOOLEAN :
          \E result \in {addTransactions(stored, newTransactions)} :
              \E kept \in {IF saved THEN result.merged ELSE stored} :
                  /\ stored' = kept
                  /\ app' = [transactions |-> kept,
                             notification |-> <<[added |-> result.added,
                                                 total |-> result.total,
                                                 type |-> "success"]>>,
                             timers |-> app.timers + 1,
                             activeTab |-> "transactions"]
                  /\ ret' = Append(ret, [newTransactions |-> newTransactions,
                                         added |-> result.added, total |-> result.total,
                                         before |-> stored, after |-> kept,
                                         saved |-> saved])
    /\ UNCHANGED <<content, parsed, original, prepended, arg, upload, calls>>

\* storageService lines 149-160: the array updateTransaction saves; the first
\* transaction with the id is replaced (findIndex)
updateTransaction(transactions, id, updates) ==
    LET index == CHOOSE i \in 1..Len(transactions) :
                    /\ transactions[i].id = id
                    /\ \A j \in 1..(i - 1) : transactions[j].id # id
    IN  [transactions EXCEPT ![index] =
            [@ EXCEPT !.category = updates.category,
                      !.subcategory = updates.subcategory,
                      !.notes = updates.notes]]

\* App lines 48-53, handleUpdateTransaction, as TransactionRow calls it: the
\* user gives an uncategorized transaction a category and a note
UpdateTransaction ==
    /\ app.timers < MaxTimers
    /\ \E i \in 1..Len(stored), saved \in BOOLEAN :
          /\ stored[i].category = Null
          /\ \A j \in 1..(i - 1) : stored[j].id # stored[i].id
          /\ \E kept \in {IF saved
                          THEN updateTransaction(stored, stored[i].id,
                                                 [category |-> <<"f", "o", "o", "d">>,
                                                  subcategory |-> <<>>,
                                                  notes |-> <<"n">>])
                          ELSE stored} :
                /\ stored' = kept
                /\ app' = [app EXCEPT !.transactions = kept,
                                      !.notification = <<[message |-> "Transaction updated",
                                                          type |-> "success"]>>,
                                      !.timers = @ + 1]
    /\ UNCHANGED <<content, parsed, original, prepended, arg, ret, upload, calls>>

NextStore == AddTransactions \/ UpdateTransaction

SpecStore == InitStore /\ [][NextStore]_vars

-----------------------------------------------------------------------------
(* storageService.applyAutoLabelRules, as handleApplyAutoLabelRules calls  *)
(* it: on the stored transactions and the stored rules, MaxApplications    *)
(* times.  The rules are those AutoLabelManager saves: a trimmed, non-empty *)
(* keyword and a non-empty category (AutoLabelManager lines 26 and 62).     *)

MaxApplications == 2
MaxRules == 2

\* String.prototype.toUpperCase
ToUpperCase(str) ==
    CHOOSE r \in {[i \in 1..Len(s) |->
                      IF IsLower(s[i])
                      THEN UpperCase[CHOOSE k \in 1..26 : LowerCase[k] = s[i]]
                      ELSE s[i]] : s \in {str}} : TRUE

\* a value JavaScript takes as true: neither null nor ''
Truthy(value) == value # Null /\ value # <<>>

\* the k-th matching rule instead of the first: the last one
FirstMatch_Last(description, rules) ==
    LET hits == {k \in 1..Len(rules) :
                    /\ ToUpperCase(rules[k].keyword) # <<>>
                    /\ Includes(description, ToUpperCase(rules[k].keyword))}
    IN  IF hits = {} THEN 0 ELSE CHOOSE k \in hits : \A h \in hits : h <= k

\* storageService lines 305-315: the index of the rule the loop returns on, or 0
FirstMatch(description, rules) ==
    LET hits == {k \in 1..Len(rules) :
                    /\ ToUpperCase(rules[k].keyword) # <<>>
                    /\ Includes(description, ToUpperCase(rules[k].keyword))}
    IN  IF hits = {} THEN 0 ELSE CHOOSE k \in hits : \A h \in hits : k <= h

\* storageService lines 295-327
applyAutoLabelRules(transactions, rules) ==
    LET match == [k \in 1..Len(transactions) |->
                     IF Truthy(transactions[k].category) THEN 0
                     ELSE FirstMatch(ToUpperCase(transactions[k].description), rules)]
    IN  [updated |-> [k \in 1..Len(transactions) |->
                         IF match[k] = 0 THEN transactions[k]
                         ELSE [transactions[k] EXCEPT
                                  !.category = rules[match[k]].category,
                                  !.subcategory = rules[match[k]].subcategory]],
         labelsApplied |-> Cardinality({k \in 1..Len(transactions) : match[k] # 0})]

LabelRules ==
    {[keyword |-> k, category |-> c, subcategory |-> s] :
        k \in {<<"a", "b">>, <<"C", "D">>, <<"d">>}, c \in {<<"f", "o", "o", "d">>, <<"f", "u", "e", "l">>}, s \in {<<>>, <<"x">>}}

RuleLists == UNION {[1..n -> LabelRules] : n \in 0..MaxRules}

\* a stored transaction with the k-th id, a description and a category
LabelledTransaction(k, description, category) ==
    [StoredTransaction(k, description) EXCEPT
        !.category = category,
        !.subcategory = IF category = Null THEN Null ELSE <<>>]

LabelStores ==
    UNION {{[k \in 1..n |-> LabelledTransaction(k, ds[k], cs[k])] :
               ds \in [1..n -> {<<"A", "b", " ", "c", "d">>, <<"x", "D">>}],
               cs \in [1..n -> {Null, <<>>, <<"r", "e", "n", "t">>}]}
              : n \in 0..MaxStored}

InitLabel ==
    /\ stored \in LabelStores
    /\ arg \in RuleLists
    /\ app = [transactions |-> stored, notification |-> <<>>, timers |-> 0,
              activeTab |-> IF stored = <<>> THEN "upload" ELSE "transactions"]
    /\ upload = [error |-> <<>>, loading |-> FALSE]
    /\ calls = [c \in Calls |-> NoCall]
    /\ content = <<>>
    /\ parsed = NotParsed
    /\ original = NoOriginal
    /\ prepended = 0
    /\ ret = <<>>

\* App lines 79-85, handleApplyAutoLabelRules; ret keeps, for each call, the
\* store before and after it, what applyAutoLabelRules returned and whether
\* it called saveTransactions (saved: localStorage.setItem succeeded)
ApplyAutoLabelRules ==
    /\ Len(ret) < MaxApplications
    /\ \E saved \in BOOLEAN :
          \E result \in {applyAutoLabelRules(stored, arg)} :
              \E kept \in {IF result.labelsApplied > 0 /\ saved THEN result.updated
                           ELSE stored} :
                  /\ stored' = kept
                  /\ app' = [app EXCEPT
                                !.transactions = result.updated,
                                !.notification = <<[labelsApplied |-> result.labelsApplied,
                                                    type |-> "success"]>>,
                                !.timers = @ + 1]
                  /\ ret' = Append(ret, [before |-> stored, after |-> kept,
                                         updated |-> result.updated,
                                         labelsApplied |-> result.labelsApplied,
                                         saveCalled |-> result.labelsApplied > 0])
    /\ UNCHANGED <<content, parsed, original, prepended, arg, upload, calls>>

NextLabel == ApplyAutoLabelRules

SpecLabel == InitLabel /\ [][NextLabel]_vars

-----------------------------------------------------------------------------
(* The seven findKey calls of normalizeTransaction (lines 157-163), on     *)
(* every header row of at most MaxRoleHeaders columns drawn from           *)
(* RoleHeaders.                                                             *)

MaxRoleHeaders == 3

RoleHeaders ==
    { <<"T", "x", "n", " ", "D", "a", "t", "e">>, <<"V", "a", "l", "u", "e", " ", "D", "a", "t", "e">>, <<"D", "e", "s", "c", "r", "i", "p", "t", "i", "o", "n">>, <<"R", "e", "f", " ", "N", "o", ".", "/", "C", "h", "e", "q", "u", "e", " ", "N", "o", ".">>,
      <<"D", "e", "b", "i", "t">>, <<"C", "r", "e", "d", "i", "t">>, <<"B", "a", "l", "a", "n", "c", "e">>, <<"C", "r", ".", "/", "D", "r">> }

RECURSIVE RoleHeadersOf(_)
RoleHeadersOf(n) ==
    IF n = 0 THEN {<<>>}
    ELSE {<<h>> \o t : h \in RoleHeaders, t \in RoleHeadersOf(n - 1)}

RoleHeaderLines ==
    {Join(hs, TAB) : hs \in UNION {RoleHeadersOf(n) : n \in 1..MaxRoleHeaders}}

InitRoles ==
    /\ arg \in RoleHeaderLines
    /\ ret = <<>>
    /\ content = <<>>
    /\ parsed = NotParsed
    /\ original = NoOriginal
    /\ prepended = 0
    /\ NotImporting

\* lines 157-163: the header each role is read from, or Null
ResolveKeys ==
    /\ ret = <<>>
    /\ \E headers \in {HeadersOf(arg)} :
          ret' = <<[dateKey |-> findKey(headers, dateNames),
                    valueDateKey |-> findKey(headers, valueDateNames),
                    descKey |-> findKey(headers, descNames),
                    refKey |-> findKey(headers, refNames),
                    debitKey |-> findKey(headers, debitNames),
                    creditKey |-> findKey(headers, creditNames),
                    balanceKey |-> findKey(headers, balanceNames)]>>
    /\ UNCHANGED <<content, parsed, original, prepended, arg, upload, app, stored, calls>>

NextRoles == ResolveKeys

SpecRoles == InitRoles /\ [][NextRoles]_vars

-----------------------------------------------------------------------------
(* The import flow: MaxCalls calls of handleFile, each on a file the user   *)
(* chose; a call that reads its file waits for the FileReader, and other    *)
(* calls and timers run while it waits.                                     *)

ImportNames == { <<"s", ".", "t", "s", "v">>, <<"s", ".", "t", "x", "t">> }
OtherNames == { <<"s", ".", "c", "s", "v">> }

TwoRows ==
    <<"D", "a", "t", "e", "\t", "D", "e", "t", "a", "i", "l", "s", "\t", "D", "e", "b", "i", "t", "\t", "C", "r", "e", "d", "i", "t", "\t", "B", "a", "l", "a", "n", "c", "e", "\n", "1", "/", "4", "/", "2", "0", "2", "4", "\t", "A", "B", "\t", "5", ".", "0", "0", "\t", "\t", "9", "0", "\n", "2", "/", "4", "/", "2", "0", "2", "4", "\t", "C", "D", "\t", "\t", "7", "\t", "9", "7">>

ImportContents ==
    { TwoRows,
      <<"D", "a", "t", "e", "\t", "D", "e", "t", "a", "i", "l", "s", "\t", "D", "e", "b", "i", "t", "\t", "C", "r", "e", "d", "i", "t", "\t", "B", "a", "l", "a", "n", "c", "e", "\n", "1", "/", "4", "/", "2", "0", "2", "4", "\t", "A", "B", "\t", "5", ".", "0", "0", "\t", "\t", "9", "0">>,
      <<"D", "a", "t", "e", "\t", "D", "e", "t", "a", "i", "l", "s", "\t", "D", "e", "b", "i", "t", "\t", "C", "r", "e", "d", "i", "t", "\t", "B", "a", "l", "a", "n", "c", "e", "\n", "\t", "\t", "5", ".", "0", "0", "\t", "\t", "9", "0">>,
      <<"D", "a", "t", "e", "\t", "D", "e", "t", "a", "i", "l", "s", "\t", "D", "e", "b", "i", "t">> }

\* a file the FileReader can read has a content; one it cannot read has none
ImportFiles ==
    {[name |-> n, readable |-> TRUE, content |-> t] : n \in ImportNames, t \in ImportContents}
        \cup {[name |-> n, readable |-> TRUE, content |-> TwoRows] : n \in OtherNames}
        \cup {[name |-> n, readable |-> FALSE, content |-> <<>>] :
                 n \in {<<"s", ".", "t", "s", "v">>} \cup OtherNames}

InitImport ==
    /\ content = <<>>
    /\ parsed = NotParsed
    /\ original = NoOriginal
    /\ prepended = 0
    /\ arg = <<>>
    /\ ret = <<>>
    /\ NotImporting

\* FileUpload lines 10-20: handleFile up to its await; file is <<>> when no file was chosen
HandleFile(c) ==
    /\ calls[c].pc = "idle"
    /\ \E file \in {<<>>} \cup {<<f>> : f \in ImportFiles} :
          IF file = <<>>
          THEN /\ calls' = [calls EXCEPT ![c] = [NoCall EXCEPT !.pc = "done"]]
               /\ UNCHANGED upload
          ELSE IF ~AcceptedFileType(file[1].name)
          THEN /\ upload' = [upload EXCEPT !.error = <<WrongFileType>>]
               /\ calls' = [calls EXCEPT ![c] = [pc |-> "done", file |-> file, loaded |-> <<>>]]
          ELSE /\ upload' = [error |-> <<>>, loading |-> TRUE]
               /\ calls' = [calls EXCEPT ![c] = [pc |-> "reading", file |-> file,
                                                 loaded |-> <<>>]]
    /\ UNCHANGED <<content, parsed, original, prepended, arg, ret, app, stored>>

\* FileUpload lines 27-28 and 32-36: the call ends with an error message
Fails(c, message) ==
    /\ upload' = [error |-> <<message>>, loading |-> FALSE]
    /\ calls' = [calls EXCEPT ![c].pc = "done"]
    /\ UNCHANGED <<app, stored>>

\* FileUpload line 31 and App lines 41-46: the transactions are handed to
\* handleTransactionsLoaded; saved is whether localStorage.setItem succeeded
Loads(c, transactions) ==
    /\ \E saved \in BOOLEAN :
          \E result \in {addTransactions(stored, transactions)} :
              \E kept \in {IF saved THEN result.merged ELSE stored} :
                  /\ stored' = kept
                  /\ app' = [transactions |-> kept,
                             notification |-> <<[added |-> result.added,
                                                 total |-> result.total,
                                                 type |-> "success"]>>,
                             timers |-> app.timers + 1,
                             activeTab |-> "transactions"]
    /\ upload' = [upload EXCEPT !.loading = FALSE]
    /\ calls' = [calls EXCEPT ![c].pc = "done", ![c].loaded = <<transactions>>]

\* FileUpload lines 22-36: the FileReader ended, and handleFile runs to its end
ReadEnds(c) ==
    /\ calls[c].pc = "reading"
    /\ IF ~calls[c].file[1].readable THEN Fails(c, MessageOf(FailedToRead))
       ELSE \E ids \in [1..IdsGenerated(calls[c].file[1].content) -> IdSet] :
               \E outcome \in {parseTSV(calls[c].file[1].content, ids)} :
                   IF outcome.status = "thrown" THEN Fails(c, MessageOf(outcome.error))
                   ELSE IF NoTransactions(outcome.transactions)
                        THEN Fails(c, NoValidTransactions)
                   ELSE Loads(c, outcome.transactions)
    /\ UNCHANGED <<content, parsed, original, prepended, arg, ret>>

\* App line 37: a timer set by showNotification runs out
NotificationTimeout ==
    /\ app.timers > 0
    /\ app' = [app EXCEPT !.notification = <<>>, !.timers = @ - 1]
    /\ UNCHANGED <<content, parsed, original, prepended, arg, ret, upload, stored, calls>>

NextImport ==
    \/ \E c \in Calls : HandleFile(c)
    \/ \E c \in Calls : ReadEnds(c)
    \/ NotificationTimeout

SpecImport == InitImport /\ [][NextImport]_vars

-----------------------------------------------------------------------------
(* What the properties below speak of: the lines of the imported text, its *)
(* data rows, and the raw values a data row has for the date and the       *)
(* description role.                                                        *)

\* the number of lines of the normalized and trimmed text: its newlines, plus one
LineCount(text) ==
    LET t == Trim(normalizeMultiLineFields(text))
    IN  Cardinality({i \in 1..Len(t) : t[i] = NL}) + 1

\* some line among those scanned qualifies as the header row
Recognizable(lines) == \E i \in 1..Min2(Len(lines), HeaderScanLimit) : IsHeaderLine(lines[i])

\* the data rows of a parse that returned: the lines after the header (1-indexed)
DataRows(lines, outcome) == (outcome.headerIndex + 2)..Len(lines)

NonBlank(line) == \E k \in 1..Len(ValuesOf(line)) : ValuesOf(line)[k] # <<>>

\* raw[key] || '' for the key of a role, on the row of this line
RawOf(line, headers, names) ==
    OrEmpty(Get(RawRecord(headers, ValuesOf(line)), findKey(headers, names)))

\* the row is not blank and has a raw date and a raw description
Accepted(line, headers) ==
    /\ NonBlank(line)
    /\ RawOf(line, headers, dateNames) # <<>>
    /\ RawOf(line, headers, descNames) # <<>>

\* where in the returned array the Transaction of accepted row i stands
PositionOf(lines, outcome, i) ==
    Cardinality({j \in DataRows(lines, outcome) : j <= i /\ Accepted(lines[j], outcome.headers)})

\* the column a role reads: the last header equal to the role's key, 0 when there is none
ColumnOf(headers, names) ==
    LET cols == {i \in 1..Len(headers) : headers[i] = findKey(headers, names)}
    IN  IF cols = {} THEN 0 ELSE CHOOSE i \in cols : \A j \in cols : j <= i

-----------------------------------------------------------------------------
(* C1: for every input with a recognizable header row, parseTSV returns as *)
(* many Transactions as there are non-blank data lines after the header    *)
(* whose raw date value and raw description value are both non-empty.      *)
C1_LengthIsAcceptedRows ==
    LET lines == LinesOf(content)
    IN  (parsed.status = "returned" /\ Recognizable(lines)) =>
            Len(parsed.transactions) =
                Cardinality({i \in DataRows(lines, parsed) : Accepted(lines[i], parsed.headers)})

\* a parse under a recognized header that kept a row and dropped a non-blank one
C1_Witness ==
    LET lines == LinesOf(content)
    IN  /\ parsed.status = "returned"
        /\ Recognizable(lines)
        /\ Len(parsed.transactions) >= 1
        /\ \E i \in DataRows(lines, parsed) :
              NonBlank(lines[i]) /\ ~Accepted(lines[i], parsed.headers)

(* C2: every Transaction parseTSV emits has a non-empty description: a row *)
(* whose description is empty after cleanDescription removed the noise is  *)
(* rejected.                                                                *)
C2_DescriptionNeverEmpty ==
    parsed.status = "returned" =>
        \A k \in 1..Len(parsed.transactions) : parsed.transactions[k].description # <<>>

(* C3, as claimed: parseTSV never emits a Transaction whose date is null.  *)
C3_DateNeverNull ==
    parsed.status = "returned" =>
        \A k \in 1..Len(parsed.transactions) : parsed.transactions[k].date # Null

(* C3, amended: a data row whose raw date is non-empty is not rejected for *)
(* its date: with a raw description it yields a Transaction whose date is  *)
(* what parseDate makes of the raw date, null when no format matches.      *)
C3_UnparseableDateKept ==
    LET lines == LinesOf(content)
    IN  parsed.status = "returned" =>
            \A i \in DataRows(lines, parsed) :
                Accepted(lines[i], parsed.headers) =>
                    /\ PositionOf(lines, parsed, i) <= Len(parsed.transactions)
                    /\ parsed.transactions[PositionOf(lines, parsed, i)].date =
                          parseDate(RawOf(lines[i], parsed.headers, dateNames))

\* a row with a raw date that no format matches was parsed, and its Transaction has no date
C3_Witness ==
    LET lines == LinesOf(content)
    IN  /\ parsed.status = "returned"
        /\ \E i \in DataRows(lines, parsed) :
              /\ Accepted(lines[i], parsed.headers)
              /\ parseDate(RawOf(lines[i], parsed.headers, dateNames)) = Null
              /\ PositionOf(lines, parsed, i) <= Len(parsed.transactions)
              /\ parsed.transactions[PositionOf(lines, parsed, i)].date = Null

\* a Transaction without its generated id
WithoutId(t) == [t EXCEPT !.id = ""]

Records(outcome) == [k \in 1..Len(outcome.transactions) |-> WithoutId(outcome.transactions[k])]

(* C4: metadata lines prepended before a valid header line change neither  *)
(* the header that findHeaderRow detects nor the records that parseTSV      *)
(* returns (generated ids aside).                                           *)
C4_PrependedMetadataIgnored ==
    (/\ prepended > 0
     /\ parsed.status # "none"
     /\ original.outcome.status = "returned"
     /\ IsHeaderLine(Split(original.content, NL)[1])) =>
        /\ parsed.status = "returned"
        /\ parsed.headers = original.outcome.headers
        /\ Records(parsed) = Records(original.outcome)

(* C5: parseTSV throws whenever the text has fewer than 2 lines after      *)
(* normalization.                                                           *)
C5_FewLinesThrow ==
    (parsed.status # "none" /\ LineCount(content) < 2) =>
        (parsed.status = "thrown" /\ parsed.error = NoDataRows)

\* a text of one line, a header row alone, was parsed
C5_Witness ==
    /\ parsed.status = "thrown"
    /\ LineCount(content) < 2
    /\ IsHeaderLine(content)

(* C6: on a text of at least 2 lines parseTSV never throws, whatever the   *)
(* header and the rows hold, and no call ends in "Could not find header    *)
(* row".                                                                    *)
C6_TwoLinesNeverThrow ==
    /\ (parsed.status # "none" /\ LineCount(content) >= 2) => parsed.status = "returned"
    /\ parsed.error # NoHeaderRow

\* a text in which no line qualifies as a header was parsed, and has a non-blank data row
C6_Witness ==
    LET lines == LinesOf(content)
    IN  /\ parsed.status = "returned"
        /\ ~Recognizable(lines)
        /\ \E i \in DataRows(lines, parsed) : NonBlank(lines[i])

(* C7, as claimed: when no data row yields a Transaction the parser fails  *)
(* explicitly: it never returns normally with an empty sequence.           *)
C7_EmptyResultIsFailure ==
    parsed.status = "returned" => parsed.transactions # <<>>

(* C7, amended: when the text has at least 2 lines and no data row yields  *)
(* a Transaction, parseTSV returns normally, with an empty sequence; it    *)
(* raises no failure, which is left to the caller.                          *)
C7_EmptyResultReturned ==
    LET lines == LinesOf(content)
        found == findHeaderRow(lines)
    IN  (/\ parsed.status # "none"
         /\ LineCount(content) >= 2
         /\ \A i \in (found.headerIndex + 2)..Len(lines) : ~Accepted(lines[i], found.headers)) =>
            (parsed.status = "returned" /\ parsed.transactions = <<>>)

\* a text with non-blank data rows, none of them accepted, was parsed
C7_Witness ==
    LET lines == LinesOf(content)
    IN  /\ parsed.status = "returned"
        /\ parsed.transactions = <<>>
        /\ \E i \in DataRows(lines, parsed) : NonBlank(lines[i])

(* C10: a data line with fewer fields than the header is not rejected for  *)
(* being short: with a date and a description it yields a Transaction, in  *)
(* which every amount whose column the line lacks is 0.                     *)
C10_ShortRowPadded ==
    LET lines == LinesOf(content)
        amountOf(t, role) == IF role = "debit" THEN t.debit
                             ELSE IF role = "credit" THEN t.credit ELSE t.balance
        namesOf(role) == IF role = "debit" THEN debitNames
                         ELSE IF role = "credit" THEN creditNames ELSE balanceNames
    IN  parsed.status = "returned" =>
            \A i \in DataRows(lines, parsed) :
                (/\ Len(ValuesOf(lines[i])) < Len(parsed.headers)
                 /\ Accepted(lines[i], parsed.headers)) =>
                    /\ PositionOf(lines, parsed, i) <= Len(parsed.transactions)
                    /\ \A role \in {"debit", "credit", "balance"} :
                          ColumnOf(parsed.headers, namesOf(role)) > Len(ValuesOf(lines[i])) =>
                              amountOf(parsed.transactions[PositionOf(lines, parsed, i)], role) = 0

\* a row that stops before the Balance column was parsed into a Transaction
C10_Witness ==
    LET lines == LinesOf(content)
    IN  /\ parsed.status = "returned"
        /\ \E i \in DataRows(lines, parsed) :
              /\ Len(ValuesOf(lines[i])) < Len(parsed.headers)
              /\ Accepted(lines[i], parsed.headers)
              /\ ColumnOf(parsed.headers, balanceNames) > Len(ValuesOf(lines[i]))
              /\ PositionOf(lines, parsed, i) <= Len(parsed.transactions)
              /\ parsed.transactions[PositionOf(lines, parsed, i)].balance = 0

(* C8: cleanDescription is idempotent: cleaning what cleanDescription      *)
(* returned returns it unchanged.                                           *)
C8_CleanDescriptionIdempotent ==
    Len(ret) >= 2 => ret[2] = ret[1]

\* the line holds exactly one pair of quotes, and all its tabs, at least one, inside the pair
QuotedTabs(line) ==
    LET quotes == {i \in 1..Len(line) : line[i] = QUOTE}
        tabs == {i \in 1..Len(line) : line[i] = TAB}
    IN  /\ Cardinality(quotes) = 2
        /\ tabs # {}
        /\ \A t \in tabs : \E p, q \in quotes : p < t /\ t < q

(* C9, as claimed: a line whose tab-containing content lies inside one     *)
(* pair of quotes gives exactly one field, the content with the quotes     *)
(* removed and every tab kept, those at its start and end included.        *)
C9_QuotedTabsAllKept ==
    (ret # <<>> /\ QuotedTabs(arg)) => ret = <<Without(arg, {QUOTE})>>

(* C9, amended: such a line gives exactly one field, the content with the  *)
(* quotes removed and then trimmed: the tabs inside it are kept as literal *)
(* characters, the whitespace (tabs included) at its start and end is not. *)
C9_QuotedTabsKeptTrimmed ==
    (ret # <<>> /\ QuotedTabs(arg)) => ret = <<Trim(Without(arg, {QUOTE}))>>

\* a quoted line was split into one field that keeps a tab and lost one at its end
C9_Witness ==
    /\ ret # <<>>
    /\ QuotedTabs(arg)
    /\ Len(ret) = 1
    /\ TAB \in Range(ret[1])
    /\ ret[1] # Without(arg, {QUOTE})

(* C11: in every Transaction that parseTSV returns, debit and credit are   *)
(* both non-negative, whatever the debit and credit columns hold.          *)
C11_AmountsNonNegative ==
    parsed.status = "returned" =>
        \A k \in 1..Len(parsed.transactions) :
            parsed.transactions[k].debit >= 0 /\ parsed.transactions[k].credit >= 0

(* C12: in every Transaction, amount is credit when credit > 0 and -debit  *)
(* otherwise, and type is "credit" exactly when credit > 0 and "debit"     *)
(* otherwise.                                                               *)
C12_AmountAndTypeDerived ==
    parsed.status = "returned" =>
        \A k \in 1..Len(parsed.transactions) :
            LET t == parsed.transactions[k]
            IN  /\ t.credit > 0 => t.amount = t.credit /\ t.type = "credit"
                /\ ~(t.credit > 0) => t.amount = 0 - t.debit /\ t.type = "debit"

\* a Transaction whose debit and credit are both positive was returned
C12_Witness ==
    /\ parsed.status = "returned"
    /\ \E k \in 1..Len(parsed.transactions) :
          /\ parsed.transactions[k].credit > 0
          /\ parsed.transactions[k].debit > 0
          /\ parsed.transactions[k].type = "credit"

\* YYYY-MM-DD with the month in 01..12 and the day in 01..31
IsCalendarDate(d) ==
    /\ Len(d) = 10
    /\ AllDigits(SubSeq(d, 1, 4)) /\ d[5] = "-"
    /\ AllDigits(SubSeq(d, 6, 7)) /\ d[8] = "-"
    /\ AllDigits(SubSeq(d, 9, 10))
    /\ DigitsValue(SubSeq(d, 6, 7)) \in 1..12
    /\ DigitsValue(SubSeq(d, 9, 10)) \in 1..31

(* C13: every date, and every valueDate that is not null, of a Transaction *)
(* that parseTSV returns is a string YYYY-MM-DD with a four-digit year, a  *)
(* month in 01..12 and a day in 01..31, whenever parseDate accepted the    *)
(* value (the date is not null).                                           *)
C13_DatesAreCalendarDates ==
    parsed.status = "returned" =>
        \A k \in 1..Len(parsed.transactions) :
            /\ parsed.transactions[k].date # Null
                  => IsCalendarDate(parsed.transactions[k].date)
            /\ parsed.transactions[k].valueDate # Null
                  => IsCalendarDate(parsed.transactions[k].valueDate)

C15_FileOrder ==
    LET lines == LinesOf(content)
        kept == {i \in DataRows(lines, parsed) :
                    RowTransaction(lines[i], parsed.headers, "") # NoTransaction}
    IN  parsed.status = "returned" =>
            /\ Len(parsed.transactions) = Cardinality(kept)
            /\ \A i \in kept :
                  WithoutId(parsed.transactions[Cardinality({j \in kept : j <= i})])
                      = WithoutId(RowTransaction(lines[i], parsed.headers, "")[1])

\* a header and two rows that yield different Transactions were parsed
C15_Witness ==
    LET lines == LinesOf(content)
    IN  /\ parsed.status = "returned"
        /\ Len(parsed.transactions) = 2
        /\ WithoutId(parsed.transactions[1]) # WithoutId(parsed.transactions[2])
        /\ parsed.headerIndex = 0

\* the header qualification as the claim C16 states it, on one line
ClaimedHeaderLine(line) ==
    LET tokens == parseTabSeparatedLine(line)
        lower(i) == ToLowerCase(Trim(tokens[i]))
    IN  /\ \E i \in 1..Len(tokens) :
              /\ Includes(lower(i), <<"d", "a", "t", "e">>)
              /\ ~Includes(lower(i), <<"s", "t", "a", "t", "e", "m", "e", "n", "t">>)
              /\ ~Includes(lower(i), <<"o", "p", "e", "n">>)
        /\ \E i \in 1..Len(tokens) :
              \E w \in {<<"d", "e", "b", "i", "t">>, <<"c", "r", "e", "d", "i", "t">>, <<"b", "a", "l", "a", "n", "c", "e">>, <<"w", "i", "t", "h", "d", "r", "a", "w", "a", "l">>, <<"d", "e", "p", "o", "s", "i", "t">>} :
                  Includes(lower(i), w)
        /\ \E i \in 1..Len(tokens) :
              \E w \in {<<"d", "e", "s", "c", "r", "i", "p", "t", "i", "o", "n">>, <<"d", "e", "t", "a", "i", "l", "s">>, <<"p", "a", "r", "t", "i", "c", "u", "l", "a", "r", "s">>, <<"n", "a", "r", "r", "a", "t", "i", "o", "n">>} :
                  Includes(lower(i), w)

(* C16: findHeaderRow returns the lowest-indexed line, among the first     *)
(* min(50, total) lines, that has a date token (without 'statement' and    *)
(* 'open'), a token containing one of debit, credit, balance, withdrawal,  *)
(* deposit, and a token containing one of description, details,            *)
(* particulars, narration; the headers are that line's trimmed tokens.     *)
C16_FirstQualifyingLine ==
    LET lines == Split(content, NL)
        hits == {i \in 1..Min2(Len(lines), HeaderScanLimit) : ClaimedHeaderLine(lines[i])}
    IN  (ret # <<>> /\ hits # {}) =>
            \E i \in hits :
                /\ \A j \in hits : i <= j
                /\ ret[1].headerIndex = i - 1
                /\ ret[1].headers = HeadersOf(lines[i])

(* C17: findHeaderRow returns a header index in 0..min(50, total)-1 and a  *)
(* header of at least one column; when none of the first 50 lines          *)
(* qualifies, it returns line 0 as the header.                              *)
C17_IndexInWindowOrLineZero ==
    LET lines == Split(content, NL)
    IN  ret # <<>> =>
            /\ ret[1].headerIndex \in 0..(Min2(Len(lines), HeaderScanLimit) - 1)
            /\ Len(ret[1].headers) >= 1
            /\ (\A i \in 1..Min2(Len(lines), HeaderScanLimit) : ~IsHeaderLine(lines[i])) =>
                  /\ ret[1].headerIndex = 0
                  /\ ret[1].headers = HeadersOf(lines[1])

\* the only qualifying line is at index 50, and line 0 was returned
C17_Witness ==
    LET lines == Split(content, NL)
    IN  /\ ret # <<>>
        /\ Len(lines) > HeaderScanLimit
        /\ IsHeaderLine(lines[HeaderScanLimit + 1])
        /\ \A i \in 1..HeaderScanLimit : ~IsHeaderLine(lines[i])
        /\ ret[1].headerIndex = 0
        /\ ret[1].headers = <<<<"m">>>>

\* variant occurs in header (both lower-case) between non-letters or the string's ends
WholeWord(header, variant) ==
    \E p \in 1..Len(header) :
        /\ p + Len(variant) - 1 <= Len(header)
        /\ \A k \in 1..Len(variant) : header[p + k - 1] = variant[k]
        /\ p > 1 => header[p - 1] \notin Lowers
        /\ p + Len(variant) <= Len(header) => header[p + Len(variant)] \notin Lowers

(* C18: findKey returns the first header that equals one of the role's     *)
(* variants, case-insensitively, if there is one (even after a header that *)
(* only contains a variant as a whole word); otherwise the first header    *)
(* that contains a variant as a whole word; otherwise null.                 *)
C18_TwoPasses ==
    ret # <<>> =>
        LET headers == HeadersOf(arg)
            names == ret[1].possibleNames
            lower(i) == ToLowerCase(Trim(headers[i]))
            exact == {i \in 1..Len(headers) :
                        \E n \in 1..Len(names) : lower(i) = ToLowerCase(names[n])}
            word == {i \in 1..Len(headers) :
                        \E n \in 1..Len(names) : WholeWord(lower(i), ToLowerCase(names[n]))}
        IN  /\ exact # {} =>
                \E i \in exact : (\A j \in exact : i <= j) /\ ret[1].key = headers[i]
            /\ (exact = {} /\ word # {}) =>
                \E i \in word : (\A j \in word : i <= j) /\ ret[1].key = headers[i]
            /\ (exact = {} /\ word = {}) => ret[1].key = Null

\* the exact match 'Debit' was returned though 'Dr Note' stands before it
C18_Witness ==
    /\ ret # <<>>
    /\ ret[1].possibleNames = debitNames
    /\ HeadersOf(arg) = <<<<"D", "r", " ", "N", "o", "t", "e">>, <<"D", "e", "b", "i", "t">>>>
    /\ ret[1].key = <<"D", "e", "b", "i", "t">>

\* what a row can hold in the columns other than the date and the description
OtherValues ==
    { [valueDate |-> <<>>, reference |-> <<>>, debit |-> <<>>, credit |-> <<>>,
       balance |-> <<>>],
      [valueDate |-> <<"x">>, reference |-> <<"R", "1">>, debit |-> <<"a", "b", "c">>, credit |-> <<"a", "b", "c">>,
       balance |-> <<"a", "b", "c">>],
      [valueDate |-> <<"2", "/", "4", "/", "2", "4">>, reference |-> <<>>, debit |-> <<"-", "5", ".", "0", "0">>, credit |-> <<"7">>,
       balance |-> <<>>] }

\* no digit in the value: it is no amount and no date
NoDigit(value) == value # <<>> /\ \A i \in 1..Len(value) : ~IsDigit(value[i])

(* C19: whether a data row yields a Transaction depends only on its raw    *)
(* date and description values: the row with the same two values and any   *)
(* other debit, credit, balance, reference and value date yields one       *)
(* exactly when it does; an amount that cannot be parsed is 0 and a value  *)
(* date that cannot be parsed is null.                                      *)
C19_OnlyDateAndDescriptionDecide ==
    parsed.status = "returned" =>
        LET values == Padded(ValuesOf(LinesOf(content)[2]), 7)
        IN  /\ \A o \in OtherValues :
                  (RowTransaction(RowLine(values[1], o.valueDate, values[3], o.reference,
                                          o.debit, o.credit, o.balance),
                                  parsed.headers, "") # NoTransaction)
                      <=> (parsed.transactions # <<>>)
            /\ \A k \in 1..Len(parsed.transactions) :
                  /\ NoDigit(values[2]) => parsed.transactions[k].valueDate = Null
                  /\ NoDigit(values[5]) => parsed.transactions[k].debit = 0
                  /\ NoDigit(values[6]) => parsed.transactions[k].credit = 0
                  /\ NoDigit(values[7]) => parsed.transactions[k].balance = 0

\* a row with an unparseable value date, debit and balance yielded a Transaction
C19_Witness ==
    /\ parsed.status = "returned"
    /\ Len(parsed.transactions) = 1
    /\ LET values == Padded(ValuesOf(LinesOf(content)[2]), 7)
       IN  NoDigit(values[2]) /\ NoDigit(values[5]) /\ NoDigit(values[7])
    /\ parsed.transactions[1].valueDate = Null
    /\ parsed.transactions[1].debit = 0
    /\ parsed.transactions[1].balance = 0

\* the file is one handleFile hands on: a .tsv or .txt file that was read,
\* whose text parseTSV returns at least one Transaction for
Importable(file) ==
    /\ \E extension \in {<<".", "t", "s", "v">>, <<".", "t", "x", "t">>} : EndsWith(file.name, extension)
    /\ file.readable
    /\ LET outcome == parseTSV(file.content, [k \in 1..Len(LinesOf(file.content)) |-> ""])
       IN  outcome.status = "returned" /\ outcome.transactions # <<>>

\* the sequence is, but for the generated ids, what parseTSV returns for the text
ParsedFrom(transactions, text) ==
    LET outcome == parseTSV(text, [k \in 1..Len(LinesOf(text)) |-> ""])
    IN  /\ outcome.status = "returned"
        /\ Len(transactions) = Len(outcome.transactions)
        /\ \A k \in 1..Len(transactions) :
              WithoutId(transactions[k]) = outcome.transactions[k]

(* C20: a call of handleFile hands transactions to onTransactionsLoaded     *)
(* only when they are the non-empty sequence parseTSV returned for the      *)
(* file; a call that ends on a wrong extension, a failed read, a throwing   *)
(* parseTSV or an empty result hands nothing on, ends with an error message *)
(* set and leaves the stored transactions as they were.                     *)
C20_OnlyParsedTransactionsAreStored ==
    [][\A c \in Calls :
          (calls[c].pc # "done" /\ calls'[c].pc = "done" /\ calls'[c].file # <<>>) =>
              /\ calls'[c].loaded # <<>> =>
                    /\ calls'[c].loaded[1] # <<>>
                    /\ Importable(calls'[c].file[1])
                    /\ ParsedFrom(calls'[c].loaded[1], calls'[c].file[1].content)
              /\ ~Importable(calls'[c].file[1]) =>
                    /\ calls'[c].loaded = <<>>
                    /\ upload'.error # <<>>
                    /\ stored' = stored
      ]_vars

\* one call ended on a file without a valid row, with the error message set,
\* after another call had stored the transactions of its file
C20_Witness ==
    /\ stored # <<>>
    /\ upload.error = <<NoValidTransactions>>
    /\ \E c, d \in Calls :
          /\ calls[c].pc = "done" /\ calls[c].loaded # <<>>
          /\ calls[d].pc = "done" /\ calls[d].loaded = <<>>
          /\ calls[d].file # <<>>
          /\ AcceptedFileType(calls[d].file[1].name)
          /\ calls[d].file[1].readable

\* the full year the property gives for a 2-digit year
CenturyOf ==
    [y \in {<<"0", "0">>, <<"5", "0">>, <<"5", "1">>, <<"9", "9">>} |->
        IF y = <<"0", "0">> THEN <<"2", "0", "0", "0">>
        ELSE IF y = <<"5", "0">> THEN <<"2", "0", "5", "0">>
        ELSE IF y = <<"5", "1">> THEN <<"1", "9", "5", "1">>
        ELSE <<"1", "9", "9", "9">>]

\* the month number the property gives for a month text
MonthNumberOf ==
    [m \in {<<"4">>, <<"1", "2">>, <<"J", "a", "n">>, <<"D", "E", "C">>} |->
        IF m = <<"4">> THEN <<"0", "4">>
        ELSE IF m = <<"1", "2">> THEN <<"1", "2">>
        ELSE IF m = <<"J", "a", "n">> THEN <<"0", "1">>
        ELSE <<"1", "2">>]

(* C21: parseDate resolves a date with a 2-digit year YY, in the forms     *)
(* D/M/YY, D-M-YY, D.M.YY, D-MMM-YY and D/MMM/YY, to the year 19YY when    *)
(* YY > 50 and to 20YY when YY <= 50; a numeric date with a 4-digit year   *)
(* keeps that year.                                                         *)
C21_TwoDigitYearPivot ==
    ret # <<>> =>
        \A d \in DayTexts, s1 \in SeparatorTexts, m \in DOMAIN MonthNumberOf,
           s2 \in SeparatorTexts, y \in YearTexts :
            (/\ arg = d \o s1 \o m \o s2 \o y
             /\ IF AllDigits(m) THEN {s1, s2} \subseteq {<<"/">>, <<"-">>, <<".">>}
                ELSE Len(y) = 2 /\ {s1, s2} \subseteq {<<"/">>, <<"-">>})
            => ret[1] = (IF Len(y) = 2 THEN CenturyOf[y] ELSE y)
                            \o <<"-">> \o MonthNumberOf[m] \o <<"-">>
                            \o (IF Len(d) = 1 THEN <<"0">> \o d ELSE d)

\* the years 50 and 51 were resolved, in a numeric and in a month-name date
C21_Witness ==
    \/ arg = <<"1", "/", "4", "/", "5", "0">> /\ ret = <<<<"2", "0", "5", "0", "-", "0", "4", "-", "0", "1">>>>
    \/ arg = <<"3", "1", "-", "D", "E", "C", "-", "5", "1">> /\ ret = <<<<"1", "9", "5", "1", "-", "1", "2", "-", "3", "1">>>>

\* the number of quote characters among the first n characters of s
QuotesIn(s, n) == Cardinality({j \in 1..n : s[j] = QUOTE})

(* C22: normalizeMultiLineFields returns a text as long as its input, with *)
(* a space in the place of each newline that has an odd number of quote    *)
(* characters before it and every other character unchanged; every line of *)
(* the output but the last holds an even number of quote characters.       *)
C22_OnlyQuotedNewlinesReplaced ==
    ret # <<>> =>
        /\ Len(ret[1]) = Len(arg)
        /\ \A i \in 1..Len(arg) :
              ret[1][i] = IF arg[i] = NL /\ QuotesIn(arg, i - 1) % 2 = 1 THEN " "
                          ELSE arg[i]
        /\ \A i \in 1..Len(ret[1]) :
              ret[1][i] = NL =>
                  \A j \in 0..(i - 1) :
                      (j = 0 \/ ret[1][j] = NL) /\ (\A k \in (j + 1)..(i - 1) : ret[1][k] # NL)
                          => (QuotesIn(ret[1], i) - QuotesIn(ret[1], j)) % 2 = 0

\* a text with a newline inside quotes and one outside them was normalized
C22_Witness ==
    /\ arg = <<QUOTE, NL, QUOTE, NL, "a">>
    /\ ret = << <<QUOTE, " ", QUOTE, NL, "a">> >>

(* C23: cleanAllDescriptions is idempotent over the store: of two runs in  *)
(* a row whose writes to the store succeed, the second reports cleaned = 0 *)
(* and leaves the stored transactions unchanged; a run changes only the    *)
(* description of the transactions it counts.                               *)
C23_CleanAllIdempotent ==
    (Len(ret) = 2 /\ ~ret[1].failed /\ ~ret[2].failed) =>
        /\ ret[2].cleaned = 0
        /\ stored = ret[2].before
        /\ Len(ret[2].before) = Len(ret[1].before)
        /\ \A k \in 1..Len(ret[1].before) :
              ret[2].before[k] = [ret[1].before[k] EXCEPT
                                     !.description = ret[2].before[k].description]
        /\ ret[1].cleaned = Cardinality({k \in 1..Len(ret[1].before) :
                                            ret[2].before[k] # ret[1].before[k]})

(* C24: after any sequence of addTransactions calls from an empty store,   *)
(* no two stored transactions have the same signature (date, description,  *)
(* amount) and no two have the same id, also when the duplicates arrive in *)
(* one batch.                                                               *)
C24_NoDuplicatesStored ==
    \A i, j \in 1..Len(stored) :
        i # j => /\ stored[i].id # stored[j].id
                 /\ <<stored[i].date, stored[i].description, stored[i].amount>>
                        # <<stored[j].date, stored[j].description, stored[j].amount>>

\* the two batches hold the same records, apart from the generated ids
SameRecords(batch, other) ==
    /\ Len(batch) = Len(other)
    /\ \A k \in 1..Len(batch) : WithoutId(batch[k]) = WithoutId(other[k])

\* no transaction of the batch has the id of a stored transaction that
\* differs from it in date, description or amount
NoIdClash(batch, existing) ==
    \A k \in 1..Len(batch), i \in 1..Len(existing) :
        batch[k].id = existing[i].id =>
            <<batch[k].date, batch[k].description, batch[k].amount>>
                = <<existing[i].date, existing[i].description, existing[i].amount>>

C28_TotalMatchesStore ==
    \A k \in 1..Len(ret) : Len(ret[k].after) = ret[k].total

\* the keyword occurs in the description, letters compared without their case
OccursIn(keyword, description) ==
    \E offset \in 0..(Len(description) - Len(keyword)) :
        \A j \in 1..Len(keyword) :
            LowerChar(description[offset + j]) = LowerChar(keyword[j])

\* the rules whose non-empty keyword occurs in the transaction's description
RulesFor(t) ==
    {k \in 1..Len(arg) : arg[k].keyword # <<>> /\ OccursIn(arg[k].keyword, t.description)}

C27_RolesUseDistinctColumns ==
    ret # <<>> =>
        \A r, s \in DOMAIN ret[1] :
            (r # s /\ ret[1][r] # Null) => ret[1][r] # ret[1][s]

(* C29: the loading flag of FileUpload is true whenever a read or parse    *)
(* that handleFile started is still in progress, and false once every      *)
(* started import has finished, whatever the interleaving of overlapping   *)
(* handleFile calls.                                                        *)
C29_LoadingWhileImporting ==
    /\ (\E c \in Calls : calls[c].pc = "reading") => upload.loading
    /\ (\A c \in Calls : calls[c].pc # "reading") => ~upload.loading

(* C30: a notification is cleared only by its own timer.  The timers run   *)
(* out in the order they were set, and the notification shown is the one   *)
(* set with the newest timer: it is cleared by its own timer exactly when  *)
(* that timer is the only one pending.                                      *)
C30_ClearedByOwnTimer ==
    [][(app.notification # <<>> /\ app'.notification = <<>>) => app.timers = 1]_vars

====
